---- MODULE Spec2Model ----
(***************************************************************************)
(* cnysa: the async_hooks recorder (class Cnysa of src/index.ts, lines     *)
(* 152-524) and its timeline renderer createAsyncSnapshot.                 *)
(*                                                                         *)
(* A string is the sequence of its visible characters.  The chalk styles   *)
(* (colours) wrapped around the characters are not part of the model, nor *)
(* are the event timestamps (Date.now()), which the program never reads.  *)
(***************************************************************************)
EXTENDS Integers, Sequences, FiniteSets, TLC

\* ------------------------------------------------------------------ bounds
\* Largest async id the host hands out (ids 2..MaxId are host resources).
MaxId == 3
\* Largest length of the Event Log at which a notification is still delivered.
MaxEvents == 4
\* The length of the Event Log under SpecNested.
MaxNestedEvents == 5
MaxTraceId == 4
MaxTraceEvents == 7
MaxGridRows == 2
MaxGridCols == 2
MaxInstances == 2
MaxInstanceId == 2

\* ------------------------------------------------------------- text helpers
Digits == <<"0", "1", "2", "3", "4", "5", "6", "7", "8", "9">>

\* Number.prototype.toString(): the decimal digits of a non-negative integer.
RECURSIVE toString(_)
toString(n) ==
  IF n < 10 THEN <<Digits[n + 1]>>
  ELSE toString(n \div 10) \o <<Digits[(n % 10) + 1]>>

\* The type of the root pseudo-resource, '(initial)'.
InitialType == <<"(", "i", "n", "i", "t", "i", "a", "l", ")">>
\* The resource type the host gives a promise.
PromiseType == <<"P", "R", "O", "M", "I", "S", "E">>
\* The type of a user-made AsyncResource.
JobType == <<"J", "o", "b">>
\* The classes of resource the host creates: promises (custom = FALSE) and
\* user-made AsyncResource objects (custom = TRUE).
HostClasses ==
  { [type |-> PromiseType, custom |-> FALSE],
    [type |-> JobType, custom |-> TRUE] }

\* CnysaMarkResource: super(`(${tag})`).
MarkType(tag) == <<"(">> \o tag \o <<")">>

top(array) == array[Len(array)]

Pop(array) == IF Len(array) = 0 THEN array ELSE SubSeq(array, 1, Len(array) - 1)

\* ------------------------------------------------------------------- state
VARIABLES
  resources,                \* this.resources: uid -> CnysaResource
  events,                   \* this.events: the Event Log
  currentScopes,            \* this.currentScopes (the ids; stacks left out)
  globalContinuationEnded,  \* this.globalContinuationEnded
  ignoreResources,          \* this.ignoreResources
  markHighWater,            \* Cnysa.markHighWater
  snap,                     \* the locals of the last call of the renderer
  hostNext,                 \* host: the next async id
  hostStack,                \* host: the open scopes of recorded resources
  hostPromises,             \* host: the unrecorded promises not yet settled
  grid,                     \* assemble: its argument and what it returned
  instances,                \* the Cnysa objects constructed, oldest first
  activeInstances,          \* Cnysa.activeInstances, as indices of instances
  lastCall                  \* the last call of the API of an instance

vars == <<resources, events, currentScopes, globalContinuationEnded,
          ignoreResources, markHighWater, snap, hostNext, hostStack,
          hostPromises, grid, instances, activeInstances, lastCall>>

recorder == <<resources, events, currentScopes, globalContinuationEnded,
              ignoreResources, markHighWater>>

host == <<hostNext, hostStack, hostPromises>>

\* What the recorder's hooks and renderers leave alone.
others == <<grid, instances, activeInstances, lastCall>>

NoSnap == [called |-> FALSE, traced |-> FALSE]

\* No call of assemble yet.
NoGrid == [called |-> FALSE, args |-> <<>>, result |-> <<>>]

NoCall == [op |-> "none", on |-> 0, threw |-> FALSE]

Event(uid, type) == [uid |-> uid, type |-> type]

\* The recorder's fields as one value, so that a hook is a function of it.
This ==
  [resources |-> resources, events |-> events, currentScopes |-> currentScopes,
   globalContinuationEnded |-> globalContinuationEnded,
   ignoreResources |-> ignoreResources]

Becomes(c) ==
  /\ resources' = c.resources
  /\ events' = c.events
  /\ currentScopes' = c.currentScopes
  /\ globalContinuationEnded' = c.globalContinuationEnded
  /\ ignoreResources' = c.ignoreResources

\* ah.executionAsyncId(): the id on top of the host's execution stack, 0 when
\* no recorded scope is open.
ExecutionAsyncId == IF Len(hostStack) = 0 THEN 0 ELSE top(hostStack)

\* The constructor, for the recorder the hooks and renderers below work on.
Constructed ==
  /\ resources = (1 :> [uid |-> 1, type |-> InitialType, parents |-> <<>>,
                        internal |-> TRUE, custom |-> FALSE, tid |-> <<>>])
  /\ events = <<Event(1, "before")>>
  /\ currentScopes = <<1>>
  /\ globalContinuationEnded = FALSE
  /\ ignoreResources = 0
  /\ markHighWater = 0
  /\ snap = NoSnap
  /\ hostNext = 2
  /\ hostStack = <<1>>
  /\ hostPromises = {}

Init ==
  /\ Constructed
  /\ grid = NoGrid
  /\ instances = <<>>
  /\ activeInstances = <<>>
  /\ lastCall = NoCall

\* ------------------------------------------------------------------- hooks
\* The init hook starting the registry afresh with the resource.
InitHook_Fresh(c, uid, type, triggerId, eid, internal, custom) ==
  IF c.ignoreResources # 0
  THEN [c EXCEPT !.ignoreResources = @ - 1]
  ELSE
    LET r == [uid |-> uid, type |-> type, parents |-> c.currentScopes,
              internal |-> internal, custom |-> custom,
              tid |-> IF ~internal /\ triggerId # eid THEN <<triggerId>>
                      ELSE <<>>]
    IN [c EXCEPT
          !.resources = (uid :> r) @@ (1 :> @[1]),
          !.events = Append(@, Event(uid, IF internal THEN "internal"
                                          ELSE "init"))]

\* The init hook recording the trigger id whatever scope is executing.
InitHook_TriggerAlways(c, uid, type, triggerId, eid, internal, custom) ==
  IF c.ignoreResources # 0
  THEN [c EXCEPT !.ignoreResources = @ - 1]
  ELSE
    LET r == [uid |-> uid, type |-> type, parents |-> c.currentScopes,
              internal |-> internal, custom |-> custom,
              tid |-> IF ~internal THEN <<triggerId>> ELSE <<>>]
    IN [c EXCEPT
          !.resources = (uid :> r) @@ @,
          !.events = Append(@, Event(uid, IF internal THEN "internal"
                                          ELSE "init"))]

\* The init hook.  A resource's optional tid is a sequence of length 0 or 1.
InitHook(c, uid, type, triggerId, eid, internal, custom) ==
  IF c.ignoreResources # 0
  THEN [c EXCEPT !.ignoreResources = @ - 1]
  ELSE
    LET r == [uid |-> uid, type |-> type, parents |-> c.currentScopes,
              internal |-> internal, custom |-> custom,
              tid |-> IF ~internal /\ triggerId # eid THEN <<triggerId>>
                      ELSE <<>>]
    IN [c EXCEPT
          !.resources = (uid :> r) @@ @,
          !.events = Append(@, Event(uid, IF internal THEN "internal"
                                          ELSE "init"))]

\* The before hook without the test of r.internal.
BeforeHook_InternalToo(c, uid) ==
  IF uid \in DOMAIN c.resources
  THEN
    LET closeRoot == ~c.globalContinuationEnded /\ ~c.resources[uid].custom
        c1 == IF closeRoot
              THEN [c EXCEPT !.globalContinuationEnded = TRUE,
                             !.events = Append(@, Event(1, "after")),
                             !.currentScopes = Pop(@)]
              ELSE c
    IN [c1 EXCEPT !.events = Append(@, Event(uid, "before")),
                  !.currentScopes = Append(@, uid)]
  ELSE c

\* The before hook closing the root scope without setting the flag.
BeforeHook_NoFlag(c, uid) ==
  IF uid \in DOMAIN c.resources /\ ~c.resources[uid].internal
  THEN
    LET closeRoot == ~c.globalContinuationEnded /\ ~c.resources[uid].custom
        c1 == IF closeRoot
              THEN [c EXCEPT !.events = Append(@, Event(1, "after")),
                             !.currentScopes = Pop(@)]
              ELSE c
    IN [c1 EXCEPT !.events = Append(@, Event(uid, "before")),
                  !.currentScopes = Append(@, uid)]
  ELSE c

\* The before hook opening the scope of a resource that is not registered
\* as well.
BeforeHook_Unregistered(c, uid) ==
  IF uid \in DOMAIN c.resources /\ ~c.resources[uid].internal
  THEN
    LET closeRoot == ~c.globalContinuationEnded /\ ~c.resources[uid].custom
        c1 == IF closeRoot
              THEN [c EXCEPT !.globalContinuationEnded = TRUE,
                             !.events = Append(@, Event(1, "after")),
                             !.currentScopes = Pop(@)]
              ELSE c
    IN [c1 EXCEPT !.events = Append(@, Event(uid, "before")),
                  !.currentScopes = Append(@, uid)]
  ELSE IF uid \in DOMAIN c.resources THEN c
  ELSE [c EXCEPT !.currentScopes = Append(@, uid)]

\* The before hook.
BeforeHook(c, uid) ==
  IF uid \in DOMAIN c.resources /\ ~c.resources[uid].internal
  THEN
    LET closeRoot == ~c.globalContinuationEnded /\ ~c.resources[uid].custom
        c1 == IF closeRoot
              THEN [c EXCEPT !.globalContinuationEnded = TRUE,
                             !.events = Append(@, Event(1, "after")),
                             !.currentScopes = Pop(@)]
              ELSE c
    IN [c1 EXCEPT !.events = Append(@, Event(uid, "before")),
                  !.currentScopes = Append(@, uid)]
  ELSE c

\* The after hook.
AfterHook(c, uid) ==
  IF uid \in DOMAIN c.resources /\ ~c.resources[uid].internal
  THEN [c EXCEPT !.events = Append(@, Event(uid, "after")),
                 !.currentScopes = Pop(@)]
  ELSE c

\* The destroy hook putting its event at the head of the log (unshift for
\* push).
DestroyHook_Unshift(c, uid) ==
  IF uid \in DOMAIN c.resources /\ ~c.resources[uid].internal
  THEN [c EXCEPT !.events = <<Event(uid, "destroy")>> \o @]
  ELSE c

\* The destroy hook without the test of r.internal.
DestroyHook_InternalToo(c, uid) ==
  IF uid \in DOMAIN c.resources
  THEN [c EXCEPT !.events = Append(@, Event(uid, "destroy"))]
  ELSE c

\* The destroy hook.
DestroyHook(c, uid) ==
  IF uid \in DOMAIN c.resources /\ ~c.resources[uid].internal
  THEN [c EXCEPT !.events = Append(@, Event(uid, "destroy"))]
  ELSE c

\* The promiseResolve hook with the test the other hooks make.
PromiseResolveHook_Guarded(c, uid) ==
  IF uid \in DOMAIN c.resources /\ ~c.resources[uid].internal
  THEN [c EXCEPT !.events = Append(@, Event(uid, "promiseResolve"))]
  ELSE c

\* The promiseResolve hook.
PromiseResolveHook(c, uid) ==
  [c EXCEPT !.events = Append(@, Event(uid, "promiseResolve"))]

\* ------------------------------------------------- the host's notifications
\* The host is Node's async_hooks.  It hands out increasing ids, nests scopes
\* properly, destroys a resource once and outside its scopes, and settles a
\* promise once.  What it did to a recorded resource is read off the Event
\* Log; of the resources the recorder ignored it remembers the promises.

\* A notification is delivered while the Event Log is short enough for the
\* bounds of the model.
Room == Len(events) < MaxEvents

Has(uid, type) == \E i \in 1..Len(events) : events[i] = Event(uid, type)

InStack(uid) == \E i \in 1..Len(hostStack) : hostStack[i] = uid

\* The ids the host has handed out.
HostIds == 2..(hostNext - 1)

\* The recorded resources that are real work (no marker, not the root).
Recorded == {uid \in DOMAIN resources : uid # 1 /\ ~resources[uid].internal}

\* The host creates a resource of class cls.  The trigger id it hands to the
\* init hook is the id of the resource created last (the parent promise of a
\* chained promise, say), which may or may not be the executing scope.
OnCreate(cls) ==
  /\ Room /\ hostNext <= MaxId
  /\ LET eid == ExecutionAsyncId
         triggerId == hostNext - 1
     IN Becomes(InitHook(This, hostNext, cls.type, triggerId, eid, FALSE,
                         cls.custom))
  /\ hostNext' = hostNext + 1
  /\ hostPromises' = IF ignoreResources # 0 /\ cls.type = PromiseType
                     THEN hostPromises \cup {hostNext} ELSE hostPromises
  /\ snap' = NoSnap
  /\ UNCHANGED <<others, markHighWater, hostStack>>

\* The host enters the scope of a recorded resource.  A native callback runs
\* only from the event loop, once the main script has returned; a user-made
\* AsyncResource runs its scope anywhere.
OnEnter(uid) ==
  /\ Room
  /\ uid \in Recorded /\ ~Has(uid, "destroy") /\ ~InStack(uid)
  /\ resources[uid].custom \/ ~InStack(1)
  /\ Becomes(BeforeHook(This, uid))
  /\ hostStack' = Append(hostStack, uid)
  /\ snap' = NoSnap
  /\ UNCHANGED <<others, markHighWater, hostNext, hostPromises>>

\* The host leaves the innermost scope.
OnExit(uid) ==
  /\ Room
  /\ Len(hostStack) > 0 /\ top(hostStack) = uid /\ uid # 1
  /\ Becomes(AfterHook(This, uid))
  /\ hostStack' = Pop(hostStack)
  /\ snap' = NoSnap
  /\ UNCHANGED <<others, markHighWater, hostNext, hostPromises>>

\* The main script returns: no hook is called for the root scope.
MainReturns ==
  /\ hostStack = <<1>>
  /\ hostStack' = <<>>
  /\ snap' = NoSnap
  /\ UNCHANGED <<others, recorder, hostNext, hostPromises>>

\* The host destroys a recorded resource.
OnDestroy(uid) ==
  /\ Room
  /\ uid \in Recorded /\ ~Has(uid, "destroy") /\ ~InStack(uid)
  /\ Becomes(DestroyHook(This, uid))
  /\ snap' = NoSnap
  /\ UNCHANGED <<others, markHighWater, host>>

\* The host settles a promise, recorded or not.
OnSettle(uid) ==
  /\ Room
  /\ \/ uid \in hostPromises
     \/ /\ uid \in Recorded /\ resources[uid].type = PromiseType
        /\ ~Has(uid, "destroy") /\ ~Has(uid, "promiseResolve")
  /\ Becomes(PromiseResolveHook(This, uid))
  /\ hostPromises' = hostPromises \ {uid}
  /\ snap' = NoSnap
  /\ UNCHANGED <<others, markHighWater, hostNext, hostStack>>

\* The host enters or leaves the scope of, or destroys, a resource that is a
\* marker or that the recorder ignored; kind is the hook it calls.
OnUnrecorded(uid, kind) ==
  /\ Room
  /\ uid \in HostIds \ Recorded
  /\ Becomes(CASE kind = "before" -> BeforeHook(This, uid)
               [] kind = "after" -> AfterHook(This, uid)
               [] kind = "destroy" -> DestroyHook(This, uid))
  /\ snap' = NoSnap
  /\ UNCHANGED <<others, markHighWater, host>>

\* ---------------------------------------------------------- the public API
\* ignoreNext(numResources); n = -1 stands for a call without argument.
IgnoreNext(n) ==
  /\ ignoreResources' = IF n = -1 THEN 1 ELSE n
  /\ snap' = NoSnap
  /\ UNCHANGED <<others, resources, events, currentScopes, globalContinuationEnded,
                 markHighWater, host>>

\* mark(): new CnysaMarkResource(tag) runs the init hook with a new async id
\* and emitDestroy() makes the host deliver destroy for that id.
Mark ==
  /\ Room /\ hostNext <= MaxId
  /\ LET tag == toString(markHighWater)
         eid == ExecutionAsyncId
         c1 == InitHook(This, hostNext, MarkType(tag), eid, eid, TRUE, TRUE)
     IN Becomes(DestroyHook(c1, hostNext))
  /\ markHighWater' = markHighWater + 1
  /\ hostNext' = hostNext + 1
  /\ snap' = NoSnap
  /\ UNCHANGED <<others, hostStack, hostPromises>>

\* ------------------------------------------------------------ the renderer
\* A number that may be infinite is a sequence: <<n>> is n and <<>> is the
\* infinity at hand (-Infinity for rowHeaderLength, Infinity for a width).

Max(a, b) == IF a >= b THEN a ELSE b

\* str.match(pattern) for a pattern that is literal text: pattern occurs in str.
Match(str, pattern) ==
  \E i \in 1..(Len(str) - Len(pattern) + 1) :
    SubSeq(str, i, i + Len(pattern) - 1) = pattern

\* Object.keys(this.resources): integer keys come in ascending order.
RECURSIVE Ascending(_)
Ascending(S) ==
  IF S = {} THEN <<>>
  ELSE LET m == CHOOSE x \in S : \A y \in S : x <= y
       IN <<m>> \o Ascending(S \ {m})

Keys == Ascending(DOMAIN resources)

\* predicate walking the graph the other way: from a resource to those it
\* is a parent of.
RECURSIVE predicate_Downward(_, _)
predicate_Downward(res, ancestor) ==
  \/ \E i \in 1..Len(ancestor) : ancestor[i] = res.uid
  \/ \E k \in DOMAIN resources :
       /\ \E j \in 1..Len(resources[k].parents) :
            resources[k].parents[j] = res.uid
       /\ predicate_Downward(resources[k], ancestor)

\* predicate looking at the resource and its parents and no further.
predicate_OneStep(res, ancestor) ==
  \/ \E i \in 1..Len(ancestor) : ancestor[i] = res.uid
  \/ \E j \in 1..Len(res.parents) :
       \E i \in 1..Len(ancestor) : ancestor[i] = res.parents[j]

\* hasAncestor, for an ancestor that is a list of ids.
RECURSIVE predicate(_, _)
predicate(res, ancestor) ==
  \/ \E i \in 1..Len(ancestor) : ancestor[i] = res.uid
  \/ \E j \in 1..Len(res.parents) :
       predicate(resources[res.parents[j]], ancestor)

hasAncestor(resource, ancestor) ==
  IF Len(ancestor) = 0 THEN TRUE ELSE predicate(resource, ancestor)

\* hasAncestor, for an ancestor that is a RegExp: the early return is for
\* arrays only.
RECURSIVE predicateByType(_, _)
predicateByType(res, ancestor) ==
  \/ Match(res.type, ancestor)
  \/ \E j \in 1..Len(res.parents) :
       predicateByType(resources[res.parents[j]], ancestor)

hasAncestorByType(resource, ancestor) == predicateByType(resource, ancestor)

\* ignoredResources without the ancestry test.
ignoredResources_TypesOnly(config) ==
  {k \in DOMAIN resources : Match(resources[k].type, config.ignoreTypes)}

\* ignoredResources with an ancestry test that does not walk through a
\* resource of an excluded type.
ignoredResources_Transitive(config) ==
  LET RECURSIVE through(_)
      through(k) ==
        /\ ~Match(resources[k].type, config.ignoreTypes)
        /\ \/ \E i \in 1..Len(config.roots) : config.roots[i] = k
           \/ \E j \in 1..Len(resources[k].parents) :
                through(resources[k].parents[j])
  IN {k \in DOMAIN resources :
        \/ Match(resources[k].type, config.ignoreTypes)
        \/ Len(config.roots) > 0 /\ ~through(k)}

ignoredResources(config) ==
  {k \in DOMAIN resources :
     \/ Match(resources[k].type, config.ignoreTypes)
     \/ ~hasAncestor(resources[k], config.roots)}

\* The width of the label gutter; <<>> (-Infinity) when every resource is
\* ignored.
rowHeaderLength(config) ==
  LET shown == DOMAIN resources \ ignoredResources(config)
      len(k) ==
        LET tidLength == IF Len(resources[k].tid) > 0
                         THEN Len(toString(resources[k].uid)) + 3 ELSE 0
            uidLength == Len(toString(resources[k].uid)) + 1
            typeLength == Len(resources[k].type) + 1
        IN tidLength + uidLength + typeLength
  IN IF shown = {} THEN <<>>
     ELSE <<CHOOSE n \in {len(k) : k \in shown} :
              \A k \in shown : len(k) <= n>>

PadEvent == Event(-1, "pad")

\* The spacers after an event, at least one whatever the padding.
RECURSIVE Pads_AtLeastOne(_)
Pads_AtLeastOne(n) ==
  IF n <= 1 THEN <<PadEvent>> ELSE <<PadEvent>> \o Pads_AtLeastOne(n - 1)

RECURSIVE Pads(_)
Pads(n) == IF n <= 0 THEN <<>> ELSE <<PadEvent>> \o Pads(n - 1)

\* The events of the resources that are not ignored, each followed by
\* config.padding spacers.
RECURSIVE paddedEventsFrom(_, _, _, _)
paddedEventsFrom(ignored, padding, log, i) ==
  IF i > Len(log) THEN <<>>
  ELSE (IF log[i].uid \in ignored THEN <<>>
        ELSE <<log[i]>> \o Pads(padding))
       \o paddedEventsFrom(ignored, padding, log, i + 1)

\* log is this.events at that point of the call.
paddedEvents(config, log) ==
  CHOOSE padded \in {paddedEventsFrom(ignored, config.padding, log, 1) :
                       ignored \in {ignoredResources(config)}} : TRUE

\* new StringRowsBuilder(maxLength).
StringRowsBuilder(maxLength) ==
  [maxLength |-> maxLength, data |-> <<>>, currentLength |-> 0]

\* appendChar with every glyph but the blank making its segment dirty.
appendChar_BarDirty(b, char) ==
  LET data1 == IF b.currentLength = 0
               THEN Append(b.data, [str |-> <<>>, length |-> 0,
                                    dirty |-> FALSE])
               ELSE b.data
      n == Len(data1)
      data2 == [data1 EXCEPT
                  ![n].str = Append(@, char),
                  ![n].length = @ + 1,
                  ![n].dirty = @ \/ ~(char = " ")]
      len == b.currentLength + 1
  IN [b EXCEPT !.data = data2,
               !.currentLength = IF <<len>> = b.maxLength THEN 0 ELSE len]

\* StringRowsBuilder.appendChar(char, ...styles).
appendChar(b, char) ==
  LET data1 == IF b.currentLength = 0
               THEN Append(b.data, [str |-> <<>>, length |-> 0,
                                    dirty |-> FALSE])
               ELSE b.data
      n == Len(data1)
      data2 == [data1 EXCEPT
                  ![n].str = Append(@, char),
                  ![n].length = @ + 1,
                  ![n].dirty = @ \/ ~(char = " " \/ char = "|")]
      len == b.currentLength + 1
  IN [b EXCEPT !.data = data2,
               !.currentLength = IF <<len>> = b.maxLength THEN 0 ELSE len]

\* maybeVertical with the two comparisons of the top of the stack merged: a
\* track that is the top of the stack gets '|'.
maybeVertical_Merged(stack, uid, k) ==
  IF Len(stack) > 0
  THEN IF uid > k
       THEN IF top(stack) <= k THEN <<"|">> ELSE <<>>
       ELSE IF uid < k
            THEN IF top(stack) >= k THEN <<"|">> ELSE <<>>
            ELSE <<>>
  ELSE <<>>

\* maybeVertical(color): the connector for track k at a creation event, if
\* there is one; the result is <<glyph>> or <<>> (the code's false).
maybeVertical(stack, uid, k) ==
  IF Len(stack) > 0
  THEN IF uid > k
       THEN IF top(stack) < k THEN <<"|">>
            ELSE IF top(stack) = k THEN <<".">> ELSE <<>>
       ELSE IF uid < k
            THEN IF top(stack) > k THEN <<"|">>
                 ELSE IF top(stack) = k THEN <<".">> ELSE <<>>
            ELSE <<>>
  ELSE <<>>

\* The own-event branch with the stack.pop() of 'after' left out.
Own_NoPop(stack, alive, type, k) ==
  CASE type = "init" -> [stack |-> stack, alive |-> TRUE, char |-> "*"]
    [] type = "before" ->
         [stack |-> Append(stack, k), alive |-> alive, char |-> "{"]
    [] type = "after" -> [stack |-> stack, alive |-> alive, char |-> "}"]
    [] type = "destroy" -> [stack |-> stack, alive |-> FALSE, char |-> "*"]
    [] type = "promiseResolve" ->
         [stack |-> stack, alive |-> FALSE, char |-> "*"]
    [] type = "internal" -> [stack |-> stack, alive |-> alive, char |-> "*"]
    [] OTHER -> [stack |-> stack, alive |-> alive, char |-> "?"]

\* The own-event branch with 'internal' marking the track alive, as 'init'
\* does.
Own_InternalAlive(stack, alive, type, k) ==
  CASE type = "init" -> [stack |-> stack, alive |-> TRUE, char |-> "*"]
    [] type = "before" ->
         [stack |-> Append(stack, k), alive |-> alive, char |-> "{"]
    [] type = "after" -> [stack |-> Pop(stack), alive |-> alive, char |-> "}"]
    [] type = "destroy" -> [stack |-> stack, alive |-> FALSE, char |-> "*"]
    [] type = "promiseResolve" ->
         [stack |-> stack, alive |-> FALSE, char |-> "*"]
    [] type = "internal" -> [stack |-> stack, alive |-> TRUE, char |-> "*"]
    [] OTHER -> [stack |-> stack, alive |-> alive, char |-> "?"]

\* The own-event branch with 'promiseResolve' leaving the track alive.
Own_SettleKeepsAlive(stack, alive, type, k) ==
  CASE type = "init" -> [stack |-> stack, alive |-> TRUE, char |-> "*"]
    [] type = "before" ->
         [stack |-> Append(stack, k), alive |-> alive, char |-> "{"]
    [] type = "after" -> [stack |-> Pop(stack), alive |-> alive, char |-> "}"]
    [] type = "destroy" -> [stack |-> stack, alive |-> FALSE, char |-> "*"]
    [] type = "promiseResolve" ->
         [stack |-> stack, alive |-> alive, char |-> "*"]
    [] type = "internal" -> [stack |-> stack, alive |-> alive, char |-> "*"]
    [] OTHER -> [stack |-> stack, alive |-> alive, char |-> "?"]

\* The own-event branch: what an event of resource k does to the stack, to
\* the liveness of track k, and the glyph it puts on track k.
Own(stack, alive, type, k) ==
  CASE type = "init" -> [stack |-> stack, alive |-> TRUE, char |-> "*"]
    [] type = "before" ->
         [stack |-> Append(stack, k), alive |-> alive, char |-> "{"]
    [] type = "after" -> [stack |-> Pop(stack), alive |-> alive, char |-> "}"]
    [] type = "destroy" -> [stack |-> stack, alive |-> FALSE, char |-> "*"]
    [] type = "promiseResolve" ->
         [stack |-> stack, alive |-> FALSE, char |-> "*"]
    [] type = "internal" -> [stack |-> stack, alive |-> alive, char |-> "*"]
    [] OTHER -> [stack |-> stack, alive |-> alive, char |-> "?"]

\* The steady-state glyph with the two tests swapped: liveness first.
Steady_AliveFirst(stack, alive, k) ==
  IF alive THEN "-"
  ELSE IF \E i \in 1..Len(stack) : stack[i] = k THEN "." ELSE " "

\* The steady-state glyph of track k.
Steady(stack, alive, k) ==
  IF \E i \in 1..Len(stack) : stack[i] = k THEN "."
  ELSE IF alive THEN "-" ELSE " "

\* The body of the loop over the keys with no return after a connector: the
\* steady-state glyph follows it.
Cell_FallThrough(l, event, k, maxLength) ==
  LET t == IF k \in DOMAIN l.eventStrings THEN l.eventStrings[k]
           ELSE [alive |-> FALSE, str |-> StringRowsBuilder(maxLength)]
      own == Own(l.stack, t.alive, event.type, k)
      vertical == IF event.type \in {"internal", "init"}
                  THEN maybeVertical(l.stack, event.uid, k) ELSE <<>>
      steady == Steady(l.stack, t.alive, k)
  IN IF event.uid = k
     THEN [stack |-> own.stack,
           eventStrings |->
             (k :> [alive |-> own.alive, str |-> appendChar(t.str, own.char)])
               @@ l.eventStrings]
     ELSE [stack |-> l.stack,
           eventStrings |->
             (k :> [alive |-> t.alive,
                    str |-> IF vertical # <<>>
                            THEN appendChar(appendChar(t.str, vertical[1]),
                                            steady)
                            ELSE appendChar(t.str, steady)])
               @@ l.eventStrings]

\* The body of the loop over the keys: what one event does to track k.
\* l is the state of the loop, [stack, eventStrings]; a track is made when
\* the loop first comes to it.
Cell(l, event, k, maxLength) ==
  LET t == IF k \in DOMAIN l.eventStrings THEN l.eventStrings[k]
           ELSE [alive |-> FALSE, str |-> StringRowsBuilder(maxLength)]
      own == Own(l.stack, t.alive, event.type, k)
      vertical == IF event.type \in {"internal", "init"}
                  THEN maybeVertical(l.stack, event.uid, k) ELSE <<>>
  IN IF event.uid = k
     THEN [stack |-> own.stack,
           eventStrings |->
             (k :> [alive |-> own.alive, str |-> appendChar(t.str, own.char)])
               @@ l.eventStrings]
     ELSE [stack |-> l.stack,
           eventStrings |->
             (k :> [alive |-> t.alive,
                    str |-> appendChar(t.str,
                              IF vertical # <<>> THEN vertical[1]
                              ELSE Steady(l.stack, t.alive, k))])
               @@ l.eventStrings]

\* Object.keys(this.resources).forEach(...) for one event; keys is
\* Object.keys(this.resources).
RECURSIVE forEachKey(_, _, _, _, _)
forEachKey(l, event, keys, j, maxLength) ==
  IF j > Len(keys) THEN l
  ELSE CHOOSE r \in {forEachKey(l1, event, keys, j + 1, maxLength) :
                       l1 \in {Cell(l, event, keys[j], maxLength)}} : TRUE

\* The loop over the padded events, from the i-th on.
RECURSIVE forEachEvent(_, _, _, _, _)
forEachEvent(l, padded, keys, i, maxLength) ==
  IF i > Len(padded) THEN l
  ELSE CHOOSE r \in {forEachEvent(l1, padded, keys, i + 1, maxLength) :
                       l1 \in {forEachKey(l, padded[i], keys, 1, maxLength)}} :
         TRUE

\* leftPad(str, len).
RECURSIVE leftPad(_, _)
leftPad(str, len) ==
  IF Len(str) >= len THEN str
  ELSE leftPad(<<" ">> \o str, len)

\* The label of track k, padded to the gutter.  chalk wraps a styled piece in
\* escape codes that leftPad counts and that the code adds to the target
\* length, piece by piece: the visible text is padded to rowHeaderLength.
rowHeader(k, headerLength) ==
  LET r == resources[k]
      label ==
        IF Len(r.tid) > 0
        THEN toString(r.uid) \o <<" ", "(">> \o toString(r.tid[1])
             \o <<")", " ">> \o r.type \o <<" ">>
        ELSE toString(r.uid) \o <<" ">> \o r.type \o <<" ">>
  IN IF headerLength = <<>> THEN label ELSE leftPad(label, headerLength[1])

\* new Array(n).fill(':').join('')
RECURSIVE Colons(_)
Colons(n) ==
  IF n <= 0 THEN <<>> ELSE <<":">> \o Colons(n - 1)

separator(eventStrings, headerLength) ==
  LET longest(k) ==
        LET data == eventStrings[k].str.data
        IN IF data = <<>> THEN 0
           ELSE CHOOSE n \in {data[i].length : i \in 1..Len(data)} :
                  \A i \in 1..Len(data) : data[i].length <= n
      widths == {headerLength[1] + longest(k) : k \in DOMAIN resources}
  IN IF headerLength = <<>> THEN <<>>
     ELSE Colons(CHOOSE n \in widths \cup {0} :
                   \A m \in widths \cup {0} : m <= n)

\* The lines of every track, in the order of the keys; '' for a segment that
\* is not dirty.
dataLines(eventStrings, keys, headerLength) ==
  [j \in 1..Len(keys) |->
     LET data == eventStrings[keys[j]].str.data
     IN [i \in 1..Len(data) |->
           IF ~data[i].dirty THEN <<>>
           ELSE rowHeader(keys[j], headerLength) \o data[i].str]]

\* interleave(input, separator): flatten in column-major order.
RECURSIVE interleaveFrom(_, _, _, _)
interleaveFrom(input, sep, i, maxLength) ==
  IF i > maxLength THEN <<>>
  ELSE
    LET RECURSIVE column(_)
        column(j) ==
          IF j > Len(input) THEN <<>>
          ELSE (IF i <= Len(input[j]) THEN <<input[j][i]>> ELSE <<>>)
               \o column(j + 1)
    IN (IF i > 1 THEN <<sep>> ELSE <<>>) \o column(1)
       \o interleaveFrom(input, sep, i + 1, maxLength)

\* interleave flattening track by track, a separator between two tracks.
interleave_RowMajor(input, sep) ==
  LET RECURSIVE rows(_)
      rows(j) ==
        IF j > Len(input) THEN <<>>
        ELSE (IF j > 1 /\ Len(input[j]) > 0 THEN <<sep>> ELSE <<>>)
             \o input[j] \o rows(j + 1)
  IN rows(1)

interleave(input, sep) ==
  LET lens == {Len(input[j]) : j \in 1..Len(input)}
      maxLength == IF lens = {} THEN 0
                   ELSE CHOOSE n \in lens : \A m \in lens : m <= n
  IN interleaveFrom(input, sep, 1, maxLength)

\* filter(line => line.length > 0)
RECURSIVE nonEmpty(_)
nonEmpty(lines) ==
  IF lines = <<>> THEN <<>>
  ELSE (IF Len(Head(lines)) > 0 THEN <<Head(lines)>> ELSE <<>>)
       \o nonEmpty(Tail(lines))

\* The lines of the page; join('\n') glues them into the string returned.
output(eventStrings, keys, headerLength) ==
  CHOOSE page \in
    {<<sep>> \o nonEmpty(interleave(lines, sep)) \o <<sep>> :
       sep \in {separator(eventStrings, headerLength)},
       lines \in {dataLines(eventStrings, keys, headerLength)}} : TRUE

\* The configurations createAsyncSnapshot is called with, after
\* canonicalizeSnapshotOptions: SNAPSHOT_DEFAULTS (on a terminal of 80
\* columns), and narrow pages, a type filter and an ancestry root.
DefaultIgnore == <<" ">>

SNAPSHOT_DEFAULTS ==
  [width |-> 80, ignoreTypes |-> DefaultIgnore, roots |-> <<>>, padding |-> 1]

Configs ==
  { SNAPSHOT_DEFAULTS,
    [width |-> 15, ignoreTypes |-> DefaultIgnore, roots |-> <<>>,
     padding |-> 1],
    [width |-> 10, ignoreTypes |-> DefaultIgnore, roots |-> <<>>,
     padding |-> 0],
    [width |-> 15, ignoreTypes |-> PromiseType, roots |-> <<>>,
     padding |-> 0],
    [width |-> 80, ignoreTypes |-> DefaultIgnore, roots |-> <<2>>,
     padding |-> 1] }

\* createAsyncSnapshot closing the root scope in the log at every call.
CreateAsyncSnapshot_AlwaysCloses(config) ==
  LET evs == Append(events, Event(1, "after"))
  IN
  /\ globalContinuationEnded' = TRUE
  /\ events' = evs
  /\ UNCHANGED <<others, resources, currentScopes, ignoreResources, markHighWater,
                 host>>
  /\ \E headerLength \in {rowHeaderLength(config)},
        padded \in {paddedEvents(config, evs)}, keys \in {Keys} :
       \E l \in {forEachEvent([stack |-> <<>>, eventStrings |-> <<>>],
                              padded, keys, 1,
                              IF headerLength = <<>> THEN <<>>
                              ELSE <<config.width - headerLength[1]>>)} :
         snap' = [called |-> TRUE, traced |-> FALSE, config |-> config,
                  threw |-> padded = <<>>,
                  paddedEvents |-> padded,
                  rowHeaderLength |-> headerLength,
                  stack |-> l.stack,
                  eventStrings |-> l.eventStrings,
                  output |-> IF padded = <<>> THEN <<>>
                             ELSE output(l.eventStrings, keys, headerLength)]

\* createAsyncSnapshot(options).  The call closes the root scope in the log
\* and renders; with no event to render, eventStrings has no entry and the
\* computation of the separator throws a TypeError.
CreateAsyncSnapshot(config) ==
  LET evs == IF ~globalContinuationEnded
             THEN Append(events, Event(1, "after")) ELSE events
  IN
  /\ globalContinuationEnded' = TRUE
  /\ events' = evs
  /\ UNCHANGED <<others, resources, currentScopes, ignoreResources, markHighWater,
                 host>>
  /\ \E headerLength \in {rowHeaderLength(config)},
        padded \in {paddedEvents(config, evs)}, keys \in {Keys} :
       \E l \in {forEachEvent([stack |-> <<>>, eventStrings |-> <<>>],
                              padded, keys, 1,
                              IF headerLength = <<>> THEN <<>>
                              ELSE <<config.width - headerLength[1]>>)} :
         snap' = [called |-> TRUE, traced |-> FALSE, config |-> config,
                  threw |-> padded = <<>>,
                  paddedEvents |-> padded,
                  rowHeaderLength |-> headerLength,
                  stack |-> l.stack,
                  eventStrings |-> l.eventStrings,
                  output |-> IF padded = <<>> THEN <<>>
                             ELSE output(l.eventStrings, keys, headerLength)]

\* Static STACK_TRACE_DEFAULTS.
STACK_TRACE_DEFAULTS == [ignoreTypes |-> DefaultIgnore]

\* array.reverse()
RECURSIVE Reverse(_)
Reverse(array) ==
  IF array = <<>> THEN <<>>
  ELSE Reverse(Tail(array)) \o <<Head(array)>>

\* The while loop of createAsyncStackTrace with a filter that tests for the
\* root only.
RECURSIVE ancestryLevels_RootOnly(_, _)
ancestryLevels_RootOnly(ancestryGraphQueue, config) ==
  IF Len(ancestryGraphQueue) = 0 THEN <<>>
  ELSE
    LET keep(parents) == top(parents) # 1
        filtered == SelectSeq(ancestryGraphQueue, keep)
        level == [n \in 1..Len(filtered) |->
                    [path |-> filtered[n],
                     type |-> resources[top(filtered[n])].type]]
        RECURSIVE back(_)
        back(n) ==
          IF n > Len(filtered) THEN <<>>
          ELSE LET parents == filtered[n]
                   ps == resources[top(parents)].parents
               IN Reverse([m \in 1..Len(ps) |-> Append(parents, ps[m])])
                  \o back(n + 1)
    IN <<level>> \o ancestryLevels_RootOnly(back(1), config)

\* The loop of createAsyncStackTrace as a do-while loop: a last round on the
\* empty queue.
RECURSIVE ancestryLevels_DoWhile(_, _)
ancestryLevels_DoWhile(ancestryGraphQueue, config) ==
  LET keep(parents) ==
        /\ top(parents) # 1
        /\ ~Match(resources[top(parents)].type, config.ignoreTypes)
      filtered == SelectSeq(ancestryGraphQueue, keep)
      level == [n \in 1..Len(filtered) |->
                  [path |-> filtered[n],
                   type |-> resources[top(filtered[n])].type]]
      RECURSIVE back(_)
      back(n) ==
        IF n > Len(filtered) THEN <<>>
        ELSE LET parents == filtered[n]
                 ps == resources[top(parents)].parents
             IN Reverse([m \in 1..Len(ps) |-> Append(parents, ps[m])])
                \o back(n + 1)
  IN IF Len(ancestryGraphQueue) = 0 THEN <<level>>
     ELSE <<level>> \o ancestryLevels_DoWhile(back(1), config)

\* The while loop of createAsyncStackTrace going back to the first parent
\* only.
RECURSIVE ancestryLevels_FirstParent(_, _)
ancestryLevels_FirstParent(ancestryGraphQueue, config) ==
  IF Len(ancestryGraphQueue) = 0 THEN <<>>
  ELSE
    LET keep(parents) ==
          /\ top(parents) # 1
          /\ ~Match(resources[top(parents)].type, config.ignoreTypes)
        filtered == SelectSeq(ancestryGraphQueue, keep)
        level == [n \in 1..Len(filtered) |->
                    [path |-> filtered[n],
                     type |-> resources[top(filtered[n])].type]]
        RECURSIVE back(_)
        back(n) ==
          IF n > Len(filtered) THEN <<>>
          ELSE LET parents == filtered[n]
                   ps == resources[top(parents)].parents
               IN (IF Len(ps) = 0 THEN <<>> ELSE <<Append(parents, ps[1])>>)
                  \o back(n + 1)
    IN <<level>> \o ancestryLevels_FirstParent(back(1), config)

\* The while loop of createAsyncStackTrace: the levels of the ancestry graph
\* pushed to preassemble, a level being the paths left by the filter, each
\* with the type of its last resource.  The call sites are left out.
RECURSIVE ancestryLevels(_, _)
ancestryLevels(ancestryGraphQueue, config) ==
  IF Len(ancestryGraphQueue) = 0 THEN <<>>
  ELSE
    LET keep(parents) ==
          /\ top(parents) # 1
          /\ ~Match(resources[top(parents)].type, config.ignoreTypes)
        filtered == SelectSeq(ancestryGraphQueue, keep)
        level == [n \in 1..Len(filtered) |->
                    [path |-> filtered[n],
                     type |-> resources[top(filtered[n])].type]]
        RECURSIVE back(_)
        back(n) ==
          IF n > Len(filtered) THEN <<>>
          ELSE LET parents == filtered[n]
                   ps == resources[top(parents)].parents
               IN Reverse([m \in 1..Len(ps) |-> Append(parents, ps[m])])
                  \o back(n + 1)
    IN <<level>> \o ancestryLevels(back(1), config)

\* createAsyncStackTrace taking the scopes off this.currentScopes as it
\* queues them.
CreateAsyncStackTrace_Draining(config) ==
  /\ \E queue \in {Reverse([n \in 1..Len(currentScopes) |->
                                <<currentScopes[n]>>])} :
       snap' = [called |-> FALSE, traced |-> TRUE, config |-> config,
                levels |-> ancestryLevels(queue, config)]
  /\ currentScopes' = <<>>
  /\ UNCHANGED <<others, resources, events, globalContinuationEnded,
                 ignoreResources, markHighWater, host>>

\* createAsyncStackTrace(options).  It reads the recorder and writes nothing.
CreateAsyncStackTrace(config) ==
  /\ \E queue \in {Reverse([n \in 1..Len(currentScopes) |->
                                <<currentScopes[n]>>])} :
       snap' = [called |-> FALSE, traced |-> TRUE, config |-> config,
                levels |-> ancestryLevels(queue, config)]
  /\ UNCHANGED <<others, recorder, host>>

\* The options createAsyncStackTrace is called with, after
\* canonicalizeStackTraceOptions: those of Configs it reads, and the roots
\* that Object.assign copies from the caller's options and it never reads.
StackTraceConfigs ==
  {[ignoreTypes |-> c.ignoreTypes, roots |-> c.roots] : c \in Configs}

\* The recorder under every notification and every call of its API, the
\* snapshot taken with the default options.
Next ==
  \/ \E cls \in HostClasses : OnCreate(cls)
  \/ \E uid \in 2..MaxId : OnEnter(uid)
  \/ \E uid \in 2..MaxId : OnExit(uid)
  \/ MainReturns
  \/ \E uid \in 2..MaxId : OnDestroy(uid)
  \/ \E uid \in 2..MaxId : OnSettle(uid)
  \/ \E uid \in 2..MaxId, kind \in {"before", "after", "destroy"} :
       OnUnrecorded(uid, kind)
  \/ \E n \in {-1, 2} : IgnoreNext(n)
  \/ Mark
  \/ CreateAsyncSnapshot(SNAPSHOT_DEFAULTS)
  \/ CreateAsyncStackTrace(STACK_TRACE_DEFAULTS)

Spec == Init /\ [][Next]_vars

\* The renderers under every configuration, on the logs of a recorder whose
\* ignoreNext is not called.
NextRender ==
  \/ \E cls \in HostClasses : OnCreate(cls)
  \/ \E uid \in 2..MaxId : OnEnter(uid)
  \/ \E uid \in 2..MaxId : OnExit(uid)
  \/ MainReturns
  \/ \E uid \in 2..MaxId : OnDestroy(uid)
  \/ \E uid \in 2..MaxId : OnSettle(uid)
  \/ \E uid \in 2..MaxId, kind \in {"before", "after", "destroy"} :
       OnUnrecorded(uid, kind)
  \/ Mark
  \/ \E config \in Configs : CreateAsyncSnapshot(config)
  \/ \E config \in StackTraceConfigs : CreateAsyncStackTrace(config)

SpecRender == Init /\ [][NextRender]_vars

\* The host's notifications while the Event Log is short enough for
\* MaxNestedEvents: long enough for a resource created inside the callback
\* of a promise.
NestedRoom == Len(events) < MaxNestedEvents

OnCreateNested(cls) ==
  /\ NestedRoom /\ hostNext <= MaxId
  /\ LET eid == ExecutionAsyncId
         triggerId == hostNext - 1
     IN Becomes(InitHook(This, hostNext, cls.type, triggerId, eid, FALSE,
                         cls.custom))
  /\ hostNext' = hostNext + 1
  /\ snap' = NoSnap
  /\ UNCHANGED <<others, markHighWater, hostStack, hostPromises>>

OnEnterNested(uid) ==
  /\ NestedRoom
  /\ uid \in Recorded /\ ~InStack(uid)
  /\ resources[uid].custom \/ ~InStack(1)
  /\ Becomes(BeforeHook(This, uid))
  /\ hostStack' = Append(hostStack, uid)
  /\ snap' = NoSnap
  /\ UNCHANGED <<others, markHighWater, hostNext, hostPromises>>

OnExitNested(uid) ==
  /\ NestedRoom
  /\ Len(hostStack) > 0 /\ top(hostStack) = uid /\ uid # 1
  /\ Becomes(AfterHook(This, uid))
  /\ hostStack' = Pop(hostStack)
  /\ snap' = NoSnap
  /\ UNCHANGED <<others, markHighWater, hostNext, hostPromises>>

\* Options that set an ancestry root, with and without a type exclusion.
NestedConfigs ==
  { [width |-> 80, ignoreTypes |-> PromiseType, roots |-> <<1>>,
     padding |-> 0],
    [width |-> 80, ignoreTypes |-> JobType, roots |-> <<2>>, padding |-> 0],
    [width |-> 80, ignoreTypes |-> DefaultIgnore, roots |-> <<2>>,
     padding |-> 0] }

\* The options of createAsyncStackTrace that go with NestedConfigs.
NestedStackTraceConfigs ==
  {[ignoreTypes |-> c.ignoreTypes, roots |-> c.roots] : c \in NestedConfigs}

\* The renderers under an ancestry root or a type exclusion, on the logs of
\* resources created, entered and left, one inside the scope of another.
NextNested ==
  \/ \E cls \in HostClasses : OnCreateNested(cls)
  \/ \E uid \in 2..MaxId : OnEnterNested(uid)
  \/ \E uid \in 2..MaxId : OnExitNested(uid)
  \/ MainReturns
  \/ \E config \in NestedConfigs : CreateAsyncSnapshot(config)
  \/ \E config \in NestedStackTraceConfigs : CreateAsyncStackTrace(config)

SpecNested == Init /\ [][NextNested]_vars

\* The host's notifications for createAsyncStackTrace: scopes nested deep
\* enough for a resource with two parents besides the root, and the scope of
\* a user-made AsyncResource entered again while it is open
\* (runInAsyncScope inside runInAsyncScope).
TraceRoom == Len(events) < MaxTraceEvents

OnCreateScoped(cls) ==
  /\ TraceRoom /\ hostNext <= MaxTraceId
  /\ LET eid == ExecutionAsyncId
         triggerId == hostNext - 1
     IN Becomes(InitHook(This, hostNext, cls.type, triggerId, eid, FALSE,
                         cls.custom))
  /\ hostNext' = hostNext + 1
  /\ snap' = NoSnap
  /\ UNCHANGED <<others, markHighWater, hostStack, hostPromises>>

OnEnterScoped(uid) ==
  /\ TraceRoom
  /\ uid \in Recorded
  /\ resources[uid].custom \/ (~InStack(1) /\ ~InStack(uid))
  /\ Becomes(BeforeHook(This, uid))
  /\ hostStack' = Append(hostStack, uid)
  /\ snap' = NoSnap
  /\ UNCHANGED <<others, markHighWater, hostNext, hostPromises>>

OnExitScoped(uid) ==
  /\ TraceRoom
  /\ Len(hostStack) > 0 /\ top(hostStack) = uid /\ uid # 1
  /\ Becomes(AfterHook(This, uid))
  /\ hostStack' = Pop(hostStack)
  /\ snap' = NoSnap
  /\ UNCHANGED <<others, markHighWater, hostNext, hostPromises>>

\* The options createAsyncStackTrace is called with: none, and a type filter.
ScopedStackTraceConfigs ==
  {STACK_TRACE_DEFAULTS, [ignoreTypes |-> PromiseType]}

NextScoped ==
  \/ \E cls \in HostClasses : OnCreateScoped(cls)
  \/ \E uid \in 2..MaxTraceId : OnEnterScoped(uid)
  \/ \E uid \in 2..MaxTraceId : OnExitScoped(uid)
  \/ MainReturns
  \/ \E config \in ScopedStackTraceConfigs : CreateAsyncStackTrace(config)

SpecScoped == Init /\ [][NextScoped]_vars

\* ------------------------------------------------------- src/assemble.ts
\* A string is its characters in order, '\n' among them; a cell is its
\* lines in order, a row its cells and the argument of assemble its rows.

\* stringLength(line), for text of one column per character.
stringLength(line) == Len(line)

\* ' '.repeat(n)
repeat(n) == [i \in 1..n |-> " "]

WhiteSpace == {" ", "\n"}

RECURSIVE trimStart(_)
trimStart(str) ==
  IF str # <<>> /\ Head(str) \in WhiteSpace THEN trimStart(Tail(str))
  ELSE str

RECURSIVE trimEnd(_)
trimEnd(str) ==
  IF str # <<>> /\ top(str) \in WhiteSpace THEN trimEnd(Pop(str))
  ELSE str

\* str.trim()
trim(str) == trimStart(trimEnd(str))

\* The greatest of a set of naturals, 0 for the empty set.
Greatest(S) == CHOOSE n \in S \cup {0} : \A m \in S \cup {0} : m <= n

\* The reduce over the lines of a cell.
longestEntry(cell) == Greatest({stringLength(cell[l]) : l \in 1..Len(cell)})

\* columnWidths when the first pair of loops is done: one entry per column
\* of the longest row, the widest line of the column's cells.
columnWidths(args) ==
  [x \in 1..Greatest({Len(args[y]) : y \in 1..Len(args)}) |->
     Greatest({longestEntry(args[y][x]) :
                 y \in {r \in 1..Len(args) : x <= Len(args[r])}})]

\* rowHeights when the first pair of loops is done: tallestEntry of each row.
rowHeights(args) ==
  [y \in 1..Len(args) |->
     Greatest({Len(args[y][x]) : x \in 1..Len(args[y])})]

\* args[y][x][l] || ''
lineOf(cell, l) == IF l <= Len(cell) THEN cell[l] ELSE <<>>

\* What the loop over x adds to result for line l of row y, from cell x on.
RECURSIVE cellsFrom(_, _, _, _)
cellsFrom(args, y, l, x) ==
  IF x > Len(args[y]) THEN <<>>
  ELSE lineOf(args[y][x], l)
       \o repeat(columnWidths(args)[x] - stringLength(lineOf(args[y][x], l)))
       \o <<" ">>
       \o cellsFrom(args, y, l, x + 1)

\* The loop over l, from line l of row y on.
RECURSIVE linesFrom(_, _, _, _)
linesFrom(result, args, y, l) ==
  IF l > rowHeights(args)[y] THEN result
  ELSE linesFrom(trim(result \o cellsFrom(args, y, l, 1)) \o <<"\n">>,
                 args, y, l + 1)

\* The loop over y, from row y on.
RECURSIVE rowsFrom(_, _, _)
rowsFrom(result, args, y) ==
  IF y > Len(args) THEN result
  ELSE rowsFrom(trim(linesFrom(result, args, y, 1)) \o <<"\n", "\n">>,
                args, y + 1)

assemble(args) == trim(rowsFrom(<<>>, args, 1))

\* The arguments assemble is called with: cells of one line, of three lines
\* with an empty one in the middle, and of one empty line; rows of any number
\* of cells, none included as in the last row createAsyncStackTrace passes
\* when every path has reached the root.
GridCells ==
  { <<<<"a">>>>, <<<<"b", "b">>, <<>>, <<"b">>>>, <<<<>>>> }

GridRows == UNION {[1..n -> GridCells] : n \in 0..MaxGridCols}

Grids == UNION {[1..n -> GridRows] : n \in 1..MaxGridRows}

\* A caller about to pass an argument to assemble.
InitAssemble ==
  /\ Constructed
  /\ instances = <<>>
  /\ activeInstances = <<>>
  /\ lastCall = NoCall
  /\ grid \in {[called |-> FALSE, args |-> args, result |-> <<>>] :
                 args \in Grids}

\* The call assemble(args).
Assemble ==
  /\ ~grid.called
  /\ grid' = [grid EXCEPT !.called = TRUE, !.result = assemble(grid.args)]
  /\ UNCHANGED <<recorder, snap, host, instances, activeInstances, lastCall>>

NextAssemble == Assemble

SpecAssemble == InitAssemble /\ [][NextAssemble]_vars

\* ------------------------------------------------- several Cnysa objects
\* Options are objects: functions from the names of the properties given.
NoOptions == [name \in {} |-> <<>>]

\* The options the constructor is called with: none, and a type filter that
\* is not a regular expression.
GlobalOptions == {NoOptions, [ignoreTypes |-> <<"(">>]}

\* new RegExp(pattern) throws SyntaxError: the parentheses of the pattern do
\* not pair up.
RECURSIVE Unpaired(_, _, _)
Unpaired(pattern, i, depth) ==
  IF i > Len(pattern) THEN depth # 0
  ELSE IF pattern[i] = "(" THEN Unpaired(pattern, i + 1, depth + 1)
  ELSE IF pattern[i] = ")"
       THEN depth = 0 \/ Unpaired(pattern, i + 1, depth - 1)
  ELSE Unpaired(pattern, i + 1, depth)

RegExpThrows(pattern) == Unpaired(pattern, 1, 0)

\* Object.assign({}, Cnysa.SNAPSHOT_DEFAULTS, this.globalOptions, options)
assignSnapshotOptions(globalOptions, options) ==
  options @@ globalOptions @@ SNAPSHOT_DEFAULTS

\* canonicalizeSnapshotOptions throws.
canonicalizeThrows(globalOptions, options) ==
  RegExpThrows(assignSnapshotOptions(globalOptions, options).ignoreTypes)

\* The fields of the object when the constructor returns; the hook is
\* created and not enabled.
NewCnysa(options) ==
  [globalOptions |-> options,
   resources |-> (1 :> [uid |-> 1, type |-> InitialType, parents |-> <<>>,
                        internal |-> TRUE, custom |-> FALSE, tid |-> <<>>]),
   events |-> <<Event(1, "before")>>,
   currentScopes |-> <<1>>,
   globalContinuationEnded |-> FALSE,
   ignoreResources |-> 0,
   enabled |-> FALSE]

Constructs(i) == i \in 1..Len(instances)

\* The host has one more async id to hand out.
InstancesRoom == hostNext <= MaxInstanceId

\* What the single recorder's actions work on.
single == <<resources, events, currentScopes, globalContinuationEnded,
            ignoreResources, snap, hostStack, hostPromises, grid>>

\* new Cnysa(options)
Construct(options) ==
  /\ Len(instances) < MaxInstances
  /\ instances' = Append(instances, NewCnysa(options))
  /\ activeInstances' = Append(activeInstances, Len(instances) + 1)
  /\ lastCall' = [op |-> "new", on |-> Len(instances) + 1, threw |-> FALSE]
  /\ UNCHANGED <<single, markHighWater, hostNext>>

\* Cnysa.get() returning the first element of activeInstances.
Get_First ==
  /\ IF Len(activeInstances) = 0
     THEN /\ instances' = Append(instances, NewCnysa(NoOptions))
          /\ activeInstances' = <<Len(instances) + 1, Len(instances) + 1>>
     ELSE UNCHANGED <<instances, activeInstances>>
  /\ lastCall' = [op |-> "get", on |-> activeInstances'[1], threw |-> FALSE]
  /\ UNCHANGED <<single, markHighWater, hostNext>>

\* Cnysa.get(): lastCall.on is the instance returned.  With no instance the
\* constructor pushes the new one and get pushes it again.
Get ==
  /\ IF Len(activeInstances) = 0
     THEN /\ instances' = Append(instances, NewCnysa(NoOptions))
          /\ activeInstances' = <<Len(instances) + 1, Len(instances) + 1>>
     ELSE UNCHANGED <<instances, activeInstances>>
  /\ lastCall' = [op |-> "get", on |-> top(activeInstances'), threw |-> FALSE]
  /\ UNCHANGED <<single, markHighWater, hostNext>>

\* instances[i].enable()
Enable(i) ==
  /\ Constructs(i)
  /\ instances' = [instances EXCEPT ![i].enabled = TRUE]
  /\ lastCall' = [op |-> "enable", on |-> i, threw |-> FALSE]
  /\ UNCHANGED <<single, markHighWater, hostNext, activeInstances>>

\* instances[i].ignoreNext()
IgnoreNextOn(i) ==
  /\ Constructs(i)
  /\ instances' = [instances EXCEPT ![i].ignoreResources = 1]
  /\ lastCall' = [op |-> "ignoreNext", on |-> i, threw |-> FALSE]
  /\ UNCHANGED <<single, markHighWater, hostNext, activeInstances>>

\* The host runs the init hook of every enabled instance for a new resource.
Delivered(type, triggerId, internal, custom) ==
  [j \in 1..Len(instances) |->
     IF instances[j].enabled
     THEN InitHook(instances[j], hostNext, type, triggerId, 1, internal,
                   custom)
     ELSE instances[j]]

\* instances[i].mark() with the resource's init delivered to the hook of the
\* receiver alone.
MarkOn_Receiver(i) ==
  /\ Constructs(i) /\ InstancesRoom
  /\ instances' =
       [j \in 1..Len(instances) |->
          IF j = i
          THEN Delivered(MarkType(toString(markHighWater)), 1, TRUE, TRUE)[j]
          ELSE instances[j]]
  /\ markHighWater' = markHighWater + 1
  /\ hostNext' = hostNext + 1
  /\ lastCall' = [op |-> "mark", on |-> i, threw |-> FALSE]
  /\ UNCHANGED <<single, activeInstances>>

\* instances[i].mark(), called from the main script: the tag is taken from
\* the static counter, and new CnysaMarkResource(tag) is a resource of the
\* process, whose init the host delivers to every enabled hook.  Its destroy
\* is dropped by every destroy hook, the resource being internal.
MarkOn(i) ==
  /\ Constructs(i) /\ InstancesRoom
  /\ instances' =
       [j \in 1..Len(instances) |->
          DestroyHook(
            Delivered(MarkType(toString(markHighWater)), 1, TRUE, TRUE)[j],
            hostNext)]
  /\ markHighWater' = markHighWater + 1
  /\ hostNext' = hostNext + 1
  /\ lastCall' = [op |-> "mark", on |-> i, threw |-> FALSE]
  /\ UNCHANGED <<single, activeInstances>>

\* instances[i].createAsyncSnapshot(): canonicalizeSnapshotOptions comes
\* first and may throw; otherwise the root scope is closed in the log and
\* the page is made of the instance's own registry and log.
SnapshotOn(i) ==
  /\ Constructs(i)
  /\ IF canonicalizeThrows(instances[i].globalOptions, NoOptions)
     THEN /\ UNCHANGED instances
          /\ lastCall' = [op |-> "createAsyncSnapshot", on |-> i,
                          threw |-> TRUE]
     ELSE /\ instances' =
               [instances EXCEPT
                  ![i].globalContinuationEnded = TRUE,
                  ![i].events =
                    IF instances[i].globalContinuationEnded THEN @
                    ELSE Append(@, Event(1, "after"))]
          /\ lastCall' = [op |-> "createAsyncSnapshot", on |-> i,
                          threw |-> FALSE]
  /\ UNCHANGED <<single, markHighWater, hostNext, activeInstances>>

NextInstances ==
  \/ \E options \in GlobalOptions : Construct(options)
  \/ Get
  \/ \E i \in 1..MaxInstances : Enable(i)
  \/ \E i \in 1..MaxInstances : IgnoreNextOn(i)
  \/ \E i \in 1..MaxInstances : MarkOn(i)
  \/ \E i \in 1..MaxInstances : SnapshotOn(i)

SpecInstances == Init /\ [][NextInstances]_vars

\* ================================================================== claims
\* What the claims say of a finished createAsyncSnapshot call, read off snap.

\* The call returned a page.
Rendered == snap.called /\ ~snap.threw

Tracks == DOMAIN snap.eventStrings

Cols == Len(snap.paddedEvents)

RECURSIVE Flatten(_)
Flatten(rows) ==
  IF rows = <<>> THEN <<>> ELSE Head(rows).str \o Flatten(Tail(rows))

\* The glyph stream of track k.
Track(k) == Flatten(snap.eventStrings[k].str.data)

\* The Continuation Stack replayed over the first i padded events: a before
\* pushes its resource, an after pops, nothing else touches it.
RECURSIVE Replayed(_)
Replayed(i) ==
  IF i = 0 THEN <<>>
  ELSE IF snap.paddedEvents[i].type = "before"
       THEN Append(Replayed(i - 1), snap.paddedEvents[i].uid)
       ELSE IF snap.paddedEvents[i].type = "after"
            THEN Pop(Replayed(i - 1))
            ELSE Replayed(i - 1)

\* The replayed stack as it stands when event i comes to track k: the tracks
\* are visited in ascending id order, so a track below the event's resource
\* is visited before the event's own push or pop and a track above it after.
StackAt(i, k) ==
  IF k < snap.paddedEvents[i].uid THEN Replayed(i - 1) ELSE Replayed(i)

OnStack(stack, k) == \E j \in 1..Len(stack) : stack[j] = k

\* Track k is alive before event i: the last init, destroy or promiseResolve
\* event of k among the first i - 1 padded events is an init.
AliveBefore(i, k) ==
  \E j \in 1..(i - 1) :
    /\ snap.paddedEvents[j] = Event(k, "init")
    /\ \A m \in (j + 1)..(i - 1) :
         snap.paddedEvents[m] \notin
           {Event(k, "destroy"), Event(k, "promiseResolve")}

Creation(i) == snap.paddedEvents[i].type \in {"init", "internal"}

\* The ancestry-connector rule assigns track k a connector at event i, a
\* creation event of another resource e.
ConnectorBar(e, k, t) == (e > k /\ t < k) \/ (e < k /\ t > k)

ConnectorDot(e, k, t) == t = k

Connected(i, k) ==
  /\ Creation(i)
  /\ Replayed(i - 1) # <<>>
  /\ \/ ConnectorBar(snap.paddedEvents[i].uid, k, top(Replayed(i - 1)))
     \/ ConnectorDot(snap.paddedEvents[i].uid, k, top(Replayed(i - 1)))

\* C1: at a creation event (init or internal) of resource e, on every other
\* track k, when the replayed Continuation Stack is not empty and top is its
\* last element: the glyph is '|' if (e > k and top < k) or (e < k and
\* top > k), '.' if top = k, and otherwise the steady-state glyph ('.' when
\* k is on the stack, else '-' or a blank); nothing but (e, k, top) decides
\* the connector.
C1_ConnectorRule ==
  Rendered =>
    \A i \in 1..Cols : \A k \in Tracks :
      (Creation(i) /\ k # snap.paddedEvents[i].uid /\ Replayed(i - 1) # <<>>)
      =>
      LET e == snap.paddedEvents[i].uid
          t == top(Replayed(i - 1))
          g == Track(k)[i]
      IN IF ConnectorBar(e, k, t) THEN g = "|"
         ELSE IF ConnectorDot(e, k, t) THEN g = "."
         ELSE IF OnStack(Replayed(i - 1), k) THEN g = "."
         ELSE g \in {"-", " "}

\* A page on which the rule drew a '|' and a '.' and, at a creation event
\* with the stack not empty, fell through to a blank.
C1_Witness ==
  /\ Rendered
  /\ \E i \in 1..Cols, k \in Tracks :
       /\ Connected(i, k) /\ k # snap.paddedEvents[i].uid
       /\ Track(k)[i] = "|"
  /\ \E i \in 1..Cols, k \in Tracks :
       /\ Connected(i, k) /\ k # snap.paddedEvents[i].uid
       /\ Track(k)[i] = "."
  /\ \E i \in 1..Cols, k \in Tracks :
       /\ Creation(i) /\ Replayed(i - 1) # <<>> /\ ~Connected(i, k)
       /\ k # snap.paddedEvents[i].uid
       /\ Track(k)[i] = " "

\* C2: at every event (spacers included), on every track k that is not the
\* event's resource and got no connector, the glyph is '.' if k is anywhere
\* on the replayed Continuation Stack as it stands when the event comes to
\* track k, else '-' if track k is alive, else a blank.
C2_SteadyState ==
  Rendered =>
    \A i \in 1..Cols : \A k \in Tracks :
      (k # snap.paddedEvents[i].uid /\ ~Connected(i, k))
      =>
      Track(k)[i] = IF OnStack(StackAt(i, k), k) THEN "."
                    ELSE IF AliveBefore(i, k) THEN "-" ELSE " "

\* A page with a '.' on a track that is alive and on the stack, a '-' and a
\* blank, none of them a connector.
C2_Witness ==
  /\ Rendered
  /\ \E i \in 1..Cols, k \in Tracks :
       /\ k # snap.paddedEvents[i].uid /\ ~Connected(i, k)
       /\ OnStack(StackAt(i, k), k) /\ AliveBefore(i, k)
       /\ Track(k)[i] = "."
  /\ \E i \in 1..Cols, k \in Tracks :
       /\ k # snap.paddedEvents[i].uid /\ ~Connected(i, k)
       /\ Track(k)[i] = "-"
  /\ \E i \in 1..Cols, k \in Tracks :
       /\ k # snap.paddedEvents[i].uid /\ ~Connected(i, k)
       /\ Track(k)[i] = " "

\* The glyph of an event of kind type on its own track.
OwnGlyph(type) ==
  IF type \in {"init", "internal", "destroy", "promiseResolve"} THEN "*"
  ELSE IF type = "before" THEN "{"
  ELSE IF type = "after" THEN "}" ELSE "?"

\* C3: an event of resource e puts on track e '*' for init, internal,
\* destroy and promiseResolve, '{' for before, '}' for after and '?' for
\* any other kind; the stack the renderer ends with is the one replayed by
\* pushing on every before, popping on every after and doing nothing else.
C3_OwnEvent ==
  Rendered =>
    /\ \A i \in 1..Cols :
         snap.paddedEvents[i].uid \in Tracks =>
           Track(snap.paddedEvents[i].uid)[i]
             = OwnGlyph(snap.paddedEvents[i].type)
    /\ snap.stack = Replayed(Cols)

\* A page with a scope opened and closed, a creation and a spacer, and a
\* scope still open at the end.
C3_Witness ==
  /\ Rendered
  /\ \E i, j, m, n \in 1..Cols :
       /\ snap.paddedEvents[i].type = "before"
       /\ snap.paddedEvents[j].type = "after"
       /\ snap.paddedEvents[m].type = "init"
       /\ snap.paddedEvents[n].type = "pad"
       /\ Track(snap.paddedEvents[i].uid)[i] = "{"
       /\ Track(snap.paddedEvents[j].uid)[j] = "}"
       /\ Track(snap.paddedEvents[m].uid)[m] = "*"
  /\ snap.stack # <<>>

\* The last init, internal, destroy or promiseResolve event of track k on
\* the page, if there is one, is of one of the kinds in types.
LastLifecycleIn(k, types, among) ==
  \E j \in 1..Cols :
    /\ snap.paddedEvents[j].uid = k /\ snap.paddedEvents[j].type \in types
    /\ \A m \in (j + 1)..Cols :
         ~(snap.paddedEvents[m].uid = k /\ snap.paddedEvents[m].type \in among)

\* C4 as claimed: track e is alive after an init or an internal event of e,
\* until a destroy or promiseResolve event of e.
C4_AliveAfterInitOrInternal ==
  Rendered =>
    \A k \in Tracks :
      snap.eventStrings[k].alive
        = LastLifecycleIn(k, {"init", "internal"},
                          {"init", "internal", "destroy", "promiseResolve"})

\* C4, amended: track e is alive after an init event of e, until a destroy
\* or promiseResolve event of e, after which it is not alive; an internal
\* event leaves the liveness of its track as it is, so that the track of a
\* marker is never alive.
C4_AliveAfterInit ==
  Rendered =>
    \A k \in Tracks :
      /\ snap.eventStrings[k].alive
           = LastLifecycleIn(k, {"init"},
                             {"init", "destroy", "promiseResolve"})
      /\ resources[k].internal => ~snap.eventStrings[k].alive

\* A page at the end of which one track is alive and shows '-' after its
\* init, and the track of a marker whose internal event is on the page is
\* not alive.
C4_Witness ==
  /\ Rendered
  /\ \E k \in Tracks : snap.eventStrings[k].alive /\ "-" \in
       {Track(k)[i] : i \in 1..Cols}
  /\ \E k \in Tracks, i \in 1..Cols :
       /\ snap.paddedEvents[i] = Event(k, "internal")
       /\ ~snap.eventStrings[k].alive

\* The wrapped segments of track k, and the line of its i-th segment.
Segments(k) == snap.eventStrings[k].str.data

Line(k, i) == rowHeader(k, snap.rowHeaderLength) \o Segments(k)[i].str

Glyphs(k, i) == {Segments(k)[i].str[c] : c \in 1..Len(Segments(k)[i].str)}

OnPage(line) == \E n \in 1..Len(snap.output) : snap.output[n] = line

\* A separator line: the delimiter repeated.
IsSeparator(line) == \A c \in 1..Len(line) : line[c] = ":"

\* C5 as claimed: a wrapped segment composed entirely of blanks never
\* appears in the page, and a wrapped segment containing at least one '*',
\* '{', '}', '|' or '.' always appears.
C5_BarCountsAsDirty ==
  Rendered =>
    \A k \in Tracks : \A i \in 1..Len(Segments(k)) :
      /\ Glyphs(k, i) \subseteq {" "} => ~OnPage(Line(k, i))
      /\ Glyphs(k, i) \cap {"*", "{", "}", "|", "."} # {}
           => OnPage(Line(k, i))

\* C5, amended: a wrapped segment composed entirely of blanks and '|'
\* connectors never appears in the page, a wrapped segment containing at
\* least one other glyph ('*', '{', '}', '.', '-' or '?') always appears, and
\* the page has no other line than these and its separators.
C5_IdleLineSuppression ==
  Rendered =>
    /\ \A k \in Tracks : \A i \in 1..Len(Segments(k)) :
         OnPage(Line(k, i)) <=> ~(Glyphs(k, i) \subseteq {" ", "|"})
    /\ \A n \in 1..Len(snap.output) :
         \/ IsSeparator(snap.output[n])
         \/ \E k \in Tracks : \E i \in 1..Len(Segments(k)) :
              snap.output[n] = Line(k, i)

\* A page that leaves out a segment holding a '|' connector between blanks,
\* and leaves out a segment of blanks, and shows a segment whose only glyphs
\* other than blanks are '-'.
C5_Witness ==
  /\ Rendered
  /\ \E k \in Tracks : \E i \in 1..Len(Segments(k)) :
       "|" \in Glyphs(k, i) /\ ~OnPage(Line(k, i))
  /\ \E k \in Tracks : \E i \in 1..Len(Segments(k)) :
       Glyphs(k, i) = {" "} /\ ~OnPage(Line(k, i))
  /\ \E k \in Tracks : \E i \in 1..Len(Segments(k)) :
       "-" \in Glyphs(k, i) /\ Glyphs(k, i) \subseteq {" ", "-"}
       /\ OnPage(Line(k, i))

\* The number of wrap-rows of the page.
WrapRows ==
  Max(0, CHOOSE n \in {Len(Segments(k)) : k \in Tracks} \cup {0} :
           \A k \in Tracks : Len(Segments(k)) <= n)

\* The tracks that have a line in wrap-row i.
Shown(i) ==
  {k \in Tracks : i <= Len(Segments(k)) /\ Segments(k)[i].dirty}

\* The lines of wrap-row i, in ascending order of the resource id.
RECURSIVE RowLines(_, _)
RowLines(i, ks) ==
  IF ks = {} THEN <<>>
  ELSE LET k == CHOOSE m \in ks : \A o \in ks : m <= o
       IN <<Line(k, i)>> \o RowLines(i, ks \ {k})

\* Wrap-rows i.. of the page, each one closed by a separator line.
RECURSIVE PageFrom(_, _)
PageFrom(i, sep) ==
  IF i > WrapRows THEN <<>>
  ELSE RowLines(i, Shown(i)) \o <<sep>> \o PageFrom(i + 1, sep)

\* C6: the page begins and ends with a separator line; every line of
\* wrap-row i precedes every line of wrap-row i+1, exactly one separator line
\* between two consecutive wrap-rows; within a wrap-row the tracks are in
\* ascending order of the resource id.
C6_PageLayout ==
  Rendered =>
    /\ Len(snap.output) >= 2
    /\ IsSeparator(snap.output[1])
    /\ IsSeparator(snap.output[Len(snap.output)])
    /\ snap.output = <<snap.output[1]>> \o PageFrom(1, snap.output[1])

\* A page of at least two wrap-rows, two of which hold the lines of at least
\* two tracks.
C6_Witness ==
  /\ Rendered
  /\ WrapRows >= 2
  /\ \E i, j \in 1..WrapRows :
       i # j /\ Cardinality(Shown(i)) >= 2 /\ Cardinality(Shown(j)) >= 2

\* C7 as claimed: every line of the page has at most width characters, every
\* track's glyph stream being cut into segments of exactly width minus the
\* gutter glyphs, the last one possibly shorter.
C7_LinesFitWidth ==
  Rendered =>
    /\ \A n \in 1..Len(snap.output) :
         Len(snap.output[n]) <= snap.config.width
    /\ \A k \in Tracks : \A i \in 1..Len(Segments(k)) :
         /\ Segments(k)[i].length
              <= snap.config.width - snap.rowHeaderLength[1]
         /\ i < Len(Segments(k))
              => Segments(k)[i].length
                   = snap.config.width - snap.rowHeaderLength[1]

\* C8: the Event Log is append-only: every operation of the recorder and of
\* the renderer leaves the entries of the log as they are and in their order,
\* and adds entries at the end only.
C8_AppendOnly ==
  [][/\ Len(events') >= Len(events)
     /\ SubSeq(events', 1, Len(events)) = events]_vars

\* A log of some length that a destroy event was appended to, the snapshot
\* then closing the root scope in it.
C8_Witness ==
  /\ snap.called
  /\ Len(events) >= 4
  /\ \E uid \in HostIds, i \in 2..Len(events) :
       /\ events[i] = Event(uid, "destroy")
       /\ \E j \in 1..(i - 1) : events[j] = Event(uid, "init")
  /\ events[Len(events)] = Event(1, "after")

\* C9 as claimed: every before, after, destroy and promiseResolve event of
\* the Event Log references the root id 1 or a resource of the registry whose
\* init event is earlier in the log.
C9_EventsReferenceRegistered ==
  \A i \in 1..Len(events) :
    events[i].type \in {"before", "after", "destroy", "promiseResolve"}
      => \/ events[i].uid = 1
         \/ /\ events[i].uid \in DOMAIN resources
            /\ \E j \in 1..(i - 1) : events[j] = Event(events[i].uid, "init")

\* C10 as claimed: a resource whose creation ignoreNext suppressed is not in
\* the registry, the Event Log has no event of it, and the rendered page has
\* no column for it.
C10_SuppressedNeverSurfaces ==
  \A uid \in HostIds \ DOMAIN resources :
    /\ \A i \in 1..Len(events) : events[i].uid # uid
    /\ Rendered => \A i \in 1..Cols : snap.paddedEvents[i].uid # uid

\* C11: the destroy hook called with an id that is not in the registry
\* appends nothing and changes no state; the promiseResolve hook appends a
\* promiseResolve event for its id and changes nothing else, whether or not
\* the id is in the registry.
C11_DestroyGuardedSettleNot ==
  /\ \A uid \in 2..(MaxId + 1) :
       /\ uid \notin DOMAIN resources => DestroyHook(This, uid) = This
       /\ PromiseResolveHook(This, uid)
            = [This EXCEPT !.events = Append(events,
                                             Event(uid, "promiseResolve"))]
  /\ \A uid \in HostIds \ DOMAIN resources :
       \A i \in 1..Len(events) :
         events[i].uid = uid => events[i].type = "promiseResolve"

\* A log holding the promiseResolve event of a promise that is not in the
\* registry, and the promiseResolve event of one that is.
C11_Witness ==
  /\ \E uid \in HostIds \ DOMAIN resources : Has(uid, "promiseResolve")
  /\ \E uid \in Recorded : Has(uid, "promiseResolve")

\* The markers of the registry: the internal resources but the root.
Markers == {k \in DOMAIN resources : k # 1 /\ resources[k].internal}

\* A step of mark(): the only operation that moves markHighWater.
MarkStep == markHighWater' # markHighWater

\* The step registers exactly one resource, internal and with the current
\* Continuation Stack for parents, and touches no other resource.
RegistersMarker ==
  \E uid \in DOMAIN resources' \ DOMAIN resources :
    /\ DOMAIN resources' = DOMAIN resources \cup {uid}
    /\ \A k \in DOMAIN resources : resources'[k] = resources[k]
    /\ resources'[uid].internal
    /\ resources'[uid].parents = currentScopes

Filtered == ignoredResources(snap.config)

Stars(k) == {c \in 1..Len(Track(k)) : Track(k)[c] = "*"}

\* C13: a marker renders as a single point: on a page that shows it, the
\* track of a marker has exactly one '*' and otherwise blanks and '|'
\* connectors only: no '{', '}', '-' or '.', whatever the host notified for
\* its id; the track of a marker the options filter out has no glyph but
\* blanks and '|'.
C13_MarkerIsAPoint ==
  Rendered =>
    \A k \in Markers :
      /\ \A c \in 1..Len(Track(k)) : Track(k)[c] \in {"*", " ", "|"}
      /\ Cardinality(Stars(k)) = IF k \in Filtered THEN 0 ELSE 1
      /\ \A i \in 1..Len(Segments(k)) :
           OnPage(Line(k, i)) <=> "*" \in Glyphs(k, i)

\* A page with the track of a marker: one '*', a '|' connector across it,
\* and columns after the '*'.
C13_Witness ==
  /\ Rendered
  /\ \E k \in Markers :
       /\ k \notin Filtered
       /\ \E c \in 1..Len(Track(k)) : Track(k)[c] = "|"
       /\ \E c \in Stars(k) : c + 2 <= Len(Track(k))

\* createAsyncStackTrace returned a page.
Traced == snap.traced

\* The resources on the parents chains of resource k, k included.
RECURSIVE Chain(_)
Chain(k) ==
  {k} \cup UNION {Chain(resources[k].parents[j]) :
                    j \in 1..Len(resources[k].parents)}

\* A parents chain of resource k reaches one of roots.
Reaches(k, roots) == \E j \in 1..Len(roots) : roots[j] \in Chain(k)

\* Resource k is absent from the timeline: none of its events has a column,
\* and no line of the page is a line of its track.
AbsentFromTimeline(k) ==
  /\ \A i \in 1..Cols : snap.paddedEvents[i].uid # k
  /\ \A i \in 1..Len(Segments(k)) : ~OnPage(Line(k, i))

\* The resources named on the page of createAsyncStackTrace.
OnTracePage ==
  UNION {UNION {{snap.levels[l][n].path[m] :
                   m \in 1..Len(snap.levels[l][n].path)} :
                  n \in 1..Len(snap.levels[l])} :
           l \in 1..Len(snap.levels)}

\* The open scopes of the recorder that createAsyncStackTrace starts from and
\* its filter keeps: not the root, the type not excluded.
TraceHeads ==
  {k \in {currentScopes[n] : n \in 1..Len(currentScopes)} :
     k # 1 /\ ~Match(resources[k].type, snap.config.ignoreTypes)}

\* C14 as claimed: with the ancestry-root constraint set, a resource whose
\* parents chain never reaches a root is absent from the timeline of
\* createAsyncSnapshot and from the page of createAsyncStackTrace.
C14_RootsFilterBothPages ==
  \A k \in DOMAIN resources :
    /\ Rendered /\ snap.config.roots # <<>> /\ ~Reaches(k, snap.config.roots)
         => AbsentFromTimeline(k)
    /\ Traced /\ snap.config.roots # <<>> /\ ~Reaches(k, snap.config.roots)
         => k \notin OnTracePage

\* C14, amended: with the ancestry-root constraint set, a resource whose
\* parents chain never reaches a root is absent from the timeline of
\* createAsyncSnapshot, even if it matches no type exclusion;
\* createAsyncStackTrace has no ancestry-root option, and its page names
\* every open scope other than the root whose type is not excluded, whether
\* or not its parents chain reaches a root.
C14_RootsFilterTimelineOnly ==
  /\ Rendered /\ snap.config.roots # <<>>
       => \A k \in DOMAIN resources :
            ~Reaches(k, snap.config.roots) => AbsentFromTimeline(k)
  /\ Traced
       => /\ TraceHeads \subseteq OnTracePage
          /\ \A k \in TraceHeads :
               \E n \in 1..Len(snap.levels[1]) :
                 snap.levels[1][n].path = <<k>>

\* A page of createAsyncStackTrace, called with a root constraint, that
\* names a resource no parents chain of which reaches the root, the root
\* being in the registry.
C14_Witness ==
  /\ Traced /\ snap.config.roots # <<>>
  /\ \A j \in 1..Len(snap.config.roots) :
       snap.config.roots[j] \in DOMAIN resources
  /\ \E k \in OnTracePage : ~Reaches(k, snap.config.roots)

\* C15: a resource whose type matches ignoreTypes never appears in the
\* timeline: no line of the page carries its label and none of its events
\* has a column, whatever the log and the other resources, connectors drawn
\* across its track included.
C15_IgnoredTypeAbsent ==
  Rendered =>
    \A k \in DOMAIN resources :
      Match(resources[k].type, snap.config.ignoreTypes)
        => /\ AbsentFromTimeline(k)
           /\ \A n \in 1..Len(snap.output) :
                LET label == rowHeader(k, snap.rowHeaderLength)
                IN Len(snap.output[n]) >= Len(label)
                     => SubSeq(snap.output[n], 1, Len(label)) # label

\* A page rendered with a type exclusion: a resource of the excluded type
\* has events in the log and a '|' connector drawn across its track, and
\* another resource is shown.
C15_Witness ==
  /\ Rendered
  /\ \E k \in DOMAIN resources :
       /\ Match(resources[k].type, snap.config.ignoreTypes)
       /\ Has(k, "init")
       /\ \E c \in 1..Len(Track(k)) : Track(k)[c] = "|"
  /\ \E k \in DOMAIN resources \ {1} : ~AbsentFromTimeline(k)

\* Resource a is on every parents chain from resource k to one of roots: k
\* reaches a root, and does not once the chains are cut at a.
RECURSIVE ChainAvoiding(_, _)
ChainAvoiding(k, a) ==
  IF k = a THEN {}
  ELSE {k} \cup UNION {ChainAvoiding(resources[k].parents[j], a) :
                         j \in 1..Len(resources[k].parents)}

OnlyThrough(k, a, roots) ==
  /\ k # a
  /\ Reaches(k, roots)
  /\ \A j \in 1..Len(roots) : roots[j] \notin ChainAvoiding(k, a)

\* C16 as claimed: under a root constraint, when the type of resource a,
\* not itself a root, matches the exclusion pattern, every resource whose
\* only parents chains to a root pass through a is left out of the
\* rendering.
C16_FilterTransitive ==
  Rendered /\ snap.config.roots # <<>> =>
    \A a \in DOMAIN resources :
      /\ Match(resources[a].type, snap.config.ignoreTypes)
      /\ \A j \in 1..Len(snap.config.roots) : snap.config.roots[j] # a
      => \A k \in DOMAIN resources :
           OnlyThrough(k, a, snap.config.roots) => AbsentFromTimeline(k)

\* C16, amended: the ancestry test does not look at types: under a root
\* constraint a resource is left out of the rendering exactly when its own
\* type matches the exclusion pattern or no parents chain from it reaches a
\* root; a resource whose only chains to a root pass through a resource of
\* an excluded type is rendered, unless its own type is excluded.
C16_FilterByOwnTypeAndChain ==
  Rendered /\ snap.config.roots # <<>> =>
    \A k \in DOMAIN resources :
      AbsentFromTimeline(k)
        <=> \/ Match(resources[k].type, snap.config.ignoreTypes)
            \/ ~Reaches(k, snap.config.roots)

\* A page under a root constraint showing a resource whose only chain to the
\* root passes through a resource of an excluded type.
C16_Witness ==
  /\ Rendered /\ snap.config.roots # <<>>
  /\ \E a, k \in DOMAIN resources :
       /\ Match(resources[a].type, snap.config.ignoreTypes)
       /\ \A j \in 1..Len(snap.config.roots) : snap.config.roots[j] # a
       /\ OnlyThrough(k, a, snap.config.roots)
       /\ ~AbsentFromTimeline(k)

\* The resources a timeline gives columns to.
ShownSet == {snap.paddedEvents[i].uid : i \in 1..Cols} \ {-1}

\* C17 as claimed: whether a resource is filtered is decided once, at its
\* registration: two rendering passes over the same recorder state include
\* the same set of resources.
C17_FilterDecidedAtRegistration ==
  [][Rendered /\ Rendered' /\ resources' = resources /\ events' = events
       => ShownSet' = ShownSet]_vars

\* C17, amended: whether a resource is filtered is decided at every
\* rendering pass, from the options of that pass; under given options it
\* depends on the type and the parents chains of the resource only, which
\* are fixed at registration, so that it never changes afterwards: two
\* rendering passes with the same options over the same recorder state
\* include the same set of resources, the registered resources those options
\* do not filter; two passes with different options may not.
C17_FilterFixedPerOptions ==
  [][/\ \A config \in Configs : \A k \in DOMAIN resources :
          /\ k \in DOMAIN resources'
          /\ (k \in ignoredResources(config)')
               <=> (k \in ignoredResources(config))
     /\ Rendered /\ Rendered' /\ snap'.config = snap.config
        /\ resources' = resources /\ events' = events
          => ShownSet' = ShownSet
     /\ Rendered' => ShownSet' = DOMAIN resources' \ Filtered']_vars

\* A timeline under a root constraint that shows some resources and filters
\* others, the root resource among them.
C17_Witness ==
  /\ Rendered /\ snap.config.roots # <<>>
  /\ 1 \in Filtered
  /\ Cardinality(ShownSet) >= 2
  /\ ShownSet = DOMAIN resources \ Filtered

\* A step of a renderer: a transition to the state in which its locals stand.
SnapshotStep == snap'.called

StackTraceStep == snap'.traced

\* C18 as claimed: createAsyncSnapshot and createAsyncStackTrace leave the
\* registry, the Event Log, the recorder's Continuation Stack and the
\* root-scope-closed flag as they were.
C18_RenderersReadOnly ==
  [][SnapshotStep \/ StackTraceStep
       => UNCHANGED <<resources, events, currentScopes,
                      globalContinuationEnded>>]_vars

\* C18, amended: createAsyncStackTrace leaves the registry, the Event Log,
\* the recorder's Continuation Stack and the root-scope-closed flag as they
\* were.  createAsyncSnapshot leaves the registry and the Continuation Stack
\* as they were; called while the root scope is open it sets the
\* root-scope-closed flag and appends the after event of id 1 to the log
\* (the root stays on the Continuation Stack); called once the flag is set it
\* leaves the log and the flag as they were.
C18_SnapshotClosesRootScope ==
  [][/\ StackTraceStep
          => UNCHANGED <<resources, events, currentScopes,
                         globalContinuationEnded>>
     /\ SnapshotStep
          => /\ UNCHANGED <<resources, currentScopes>>
             /\ globalContinuationEnded'
             /\ events' = IF globalContinuationEnded THEN events
                          ELSE Append(events, Event(1, "after"))]_vars

\* A snapshot taken while the root scope was open: the log ends with the
\* after event of id 1, and the root is still on the Continuation Stack.
C18_Witness ==
  /\ snap.called
  /\ events[Len(events)] = Event(1, "after")
  /\ Len(currentScopes) > 0 /\ currentScopes[1] = 1
  /\ Len(events) >= 3

\* C19: two consecutive createAsyncSnapshot calls with the same options, no
\* notification between them, return the same page (or both throw), the
\* first call made while the root scope is open included.
C19_SnapshotIdempotent ==
  [][snap.called /\ snap'.called /\ snap'.config = snap.config
       => /\ snap'.threw = snap.threw
          /\ snap'.output = snap.output
          /\ events' = events]_vars

\* The page of a snapshot taken while the root scope was open, on a narrow
\* page, from which the next call starts.
C19_Witness ==
  /\ Rendered /\ snap.config.width = 15
  /\ events[Len(events)] = Event(1, "after")
  /\ Len(currentScopes) > 0 /\ currentScopes[1] = 1
  /\ Len(snap.output) >= 4

\* C20: no operation removes a resource from the registry or changes the id,
\* the type or the parents of a registered resource; the root resource, id
\* 1, is in the registry in every reachable state, and the Event Log never
\* holds a destroy event for id 1: the destroy hook drops a notification for
\* id 1.
C20_RegistryOnlyGrows ==
  /\ [](/\ 1 \in DOMAIN resources
        /\ ~Has(1, "destroy")
        /\ DestroyHook(This, 1) = This
        /\ \A k \in DOMAIN resources : resources[k].uid = k)
  /\ [][\A k \in DOMAIN resources :
          /\ k \in DOMAIN resources'
          /\ resources'[k].uid = resources[k].uid
          /\ resources'[k].type = resources[k].type
          /\ resources'[k].parents = resources[k].parents]_vars

\* A registry of three resources, one of them destroyed and still there.
C20_Witness ==
  /\ Cardinality(DOMAIN resources) >= 3
  /\ \E k \in DOMAIN resources : Has(k, "destroy")

\* C21: on every track, a '-' stands only at a column after an init '*' of
\* the track's resource with no destroy or promiseResolve '*' of it in
\* between: none before the resource is created, none after it is destroyed
\* or settled.
C21_DashWithinLifetime ==
  Rendered =>
    \A k \in Tracks : \A c \in 1..Len(Track(k)) :
      Track(k)[c] = "-" =>
        \E j \in 1..(c - 1) :
          /\ snap.paddedEvents[j] = Event(k, "init")
          /\ Track(k)[j] = "*"
          /\ \A m \in (j + 1)..c :
               ~(/\ snap.paddedEvents[m].uid = k
                 /\ snap.paddedEvents[m].type \in {"destroy",
                                                   "promiseResolve"})

\* A track with '-' after its init '*', and blanks before the init and after
\* its destroy or promiseResolve '*'.
C21_Witness ==
  /\ Rendered
  /\ \E k \in Tracks : \E i, j \in 1..Cols :
       /\ i < j
       /\ snap.paddedEvents[i] = Event(k, "init")
       /\ snap.paddedEvents[j].uid = k
       /\ snap.paddedEvents[j].type \in {"destroy", "promiseResolve"}
       /\ \E c \in (i + 1)..(j - 1) : Track(k)[c] = "-"
       /\ \E c \in 1..(i - 1) : Track(k)[c] = " "
       /\ \E c \in (j + 1)..Cols : Track(k)[c] = " "

\* The places of the after events of the root in the Event Log.
RootAfters == {i \in 1..Len(events) : events[i] = Event(1, "after")}

\* A step that logs a before event of resource u.
LogsBefore(u) ==
  /\ Len(events') > Len(events)
  /\ events'[Len(events')] = Event(u, "before")

\* C29: the Event Log holds at most one after event of the root.  The first
\* before of a registered resource that is no marker and not custom, the
\* root scope being open, appends the after event of the root and then the
\* before event of the resource, and closes the root scope; the before of a
\* custom resource leaves the root scope open; once the root scope is
\* closed no before and no snapshot appends an after event of the root.
C29_OneRootAfter ==
  /\ [](Cardinality(RootAfters) <= 1)
  /\ [](RootAfters # {} => globalContinuationEnded)
  /\ [][/\ \A u \in DOMAIN resources \ {1} :
             LogsBefore(u) =>
               IF ~globalContinuationEnded /\ ~resources[u].custom
               THEN /\ events' = events \o <<Event(1, "after"),
                                             Event(u, "before")>>
                    /\ globalContinuationEnded'
               ELSE /\ events' = Append(events, Event(u, "before"))
                    /\ UNCHANGED globalContinuationEnded
        /\ globalContinuationEnded
             => /\ globalContinuationEnded'
                /\ \A i \in (Len(events) + 1)..Len(events') :
                     events'[i] # Event(1, "after")]_vars

\* The first before of a promise closed the root scope in the log, and a
\* snapshot taken later added no other after event of the root.
C29_Witness ==
  /\ snap.called
  /\ \E i \in 2..(Len(events) - 1) : \E u \in Recorded :
       /\ events[i] = Event(1, "after")
       /\ events[i + 1] = Event(u, "before")
       /\ ~resources[u].custom
  /\ Cardinality(RootAfters) = 1

\* The array without the entries equal to v.
Without(array, v) == SelectSeq(array, LAMBDA e : e # v)

\* C30 as claimed: the Continuation Stack is never popped out of order: the
\* after of resource x removes the entry of x, which is on top, and the
\* closing of the root scope by the first before of a resource that is not
\* custom removes the entry of id 1, a custom resource's scope being open
\* or not.
C30_ScopesPoppedInOrder ==
  [][\A x \in DOMAIN resources \ {1} :
       /\ events' = Append(events, Event(x, "after"))
            => /\ Len(currentScopes) > 0 /\ top(currentScopes) = x
               /\ currentScopes' = Pop(currentScopes)
       /\ events' = events \o <<Event(1, "after"), Event(x, "before")>>
            => currentScopes' = Append(Without(currentScopes, 1), x)]_vars

\* The paths of the page of createAsyncStackTrace, row by row.
TracePaths(l) == {snap.levels[l][n].path : n \in 1..Len(snap.levels[l])}

\* A resource the traversal stops at: the root, or one of an excluded type.
Truncating(k) ==
  k = 1 \/ Match(resources[k].type, snap.config.ignoreTypes)

\* C26: on the page of createAsyncStackTrace no cell is headed by the root
\* or by a resource of a type that matches ignoreTypes, and no path of a
\* later row passes through such a resource: every path of a row extends a
\* path of the row above by a parent of its head, and a branch cut at a
\* resource is not pursued to that resource's ancestors.
C26_TraceTruncation ==
  Traced =>
    /\ \A l \in 1..Len(snap.levels) : \A p \in TracePaths(l) :
         /\ Len(p) = l
         /\ \A m \in 1..Len(p) : ~Truncating(p[m])
         /\ l > 1 =>
              /\ SubSeq(p, 1, l - 1) \in TracePaths(l - 1)
              /\ \E j \in 1..Len(resources[p[l - 1]].parents) :
                   resources[p[l - 1]].parents[j] = p[l]
    /\ \A k \in OnTracePage : ~Truncating(k)

\* A page that names a resource and not its parent of an excluded type, at
\* which the branch is cut.
C26_Witness ==
  /\ Traced
  /\ \E k \in OnTracePage :
       \E j \in 1..Len(resources[k].parents) :
         LET p == resources[k].parents[j]
         IN p # 1 /\ Truncating(p) /\ p \notin OnTracePage

\* C28 as claimed: rendering never fails: for every Event Log, the
\* ill-nested ones and the ones with events of unregistered ids included,
\* createAsyncSnapshot terminates and returns a page.
C28_SnapshotReturnsPage ==
  snap.called => ~snap.threw

\* str.split('\n'), from the line begun on.
RECURSIVE SplitLines(_, _)
SplitLines(str, line) ==
  IF str = <<>> THEN <<line>>
  ELSE IF Head(str) = "\n" THEN <<line>> \o SplitLines(Tail(str), <<>>)
  ELSE SplitLines(Tail(str), Append(line, Head(str)))

\* The lines of what assemble returned.
GridLines == SplitLines(grid.result, <<>>)

\* The offset at which the text of column x begins: the widths of the
\* columns before it and one space after each.
RECURSIVE ColumnOffset(_, _)
ColumnOffset(widths, x) ==
  IF x = 1 THEN 0 ELSE ColumnOffset(widths, x - 1) + widths[x - 1] + 1

\* Line l of row y of the argument is laid out in columns on an output line.
LaidOut(line, y, l) ==
  \A x \in 1..Len(grid.args[y]) :
    LET text == lineOf(grid.args[y][x], l)
        offset == ColumnOffset(columnWidths(grid.args), x)
    IN text # <<>> =>
         /\ Len(line) >= offset + Len(text)
         /\ SubSeq(line, offset + 1, offset + Len(text)) = text
         /\ \A i \in 1..offset :
              line[i] = " " \/ \E w \in 1..(x - 1) :
                i > ColumnOffset(columnWidths(grid.args), w)
                /\ i <= ColumnOffset(columnWidths(grid.args), w)
                        + Len(lineOf(grid.args[y][w], l))

\* C24 as claimed: for every argument of assemble, every line of the output
\* that is not blank is a line of a row of the argument with the text of
\* column x beginning at the offset that is the sum, over the columns before
\* x, of the column's width (the widest line of its cells in all rows) plus
\* one.
C24_ColumnsAligned ==
  grid.called =>
    \A n \in 1..Len(GridLines) :
      GridLines[n] # <<>> =>
        \E y \in 1..Len(grid.args) :
          \E l \in 1..rowHeights(grid.args)[y] :
            LaidOut(GridLines[n], y, l)

\* The output line on which row y begins when every row takes its height
\* and one blank line follows each row but the last.
RECURSIVE RowStart(_, _)
RowStart(heights, y) ==
  IF y = 1 THEN 1 ELSE RowStart(heights, y - 1) + heights[y - 1] + 1

\* C25 as claimed: for every argument of assemble, each row occupies as many
\* output lines as its tallest cell has lines, and exactly one blank line
\* separates consecutive rows (the empty text standing for no line at all).
C25_RowLayout ==
  grid.called =>
    LET heights == rowHeights(grid.args)
        rows == Len(grid.args)
        lines == RowStart(heights, rows) + heights[rows] - 1
    IN /\ Len(GridLines) = lines \/ (lines = 0 /\ grid.result = <<>>)
       /\ \A y \in 1..(rows - 1) :
            GridLines[RowStart(heights, y) + heights[y]] = <<>>

\* C22: Cnysa.get() always returns an instance: the one constructed last if
\* there is one, and otherwise one it constructs; with no construction in
\* between, a second get() returns the same instance as the first.
C22_GetReturnsLatest ==
  [][lastCall'.op = "get" =>
       /\ lastCall'.on \in 1..Len(instances')
       /\ IF Len(instances) > 0
          THEN instances' = instances /\ lastCall'.on = Len(instances)
          ELSE /\ Len(instances') = 1 /\ lastCall'.on = 1
               /\ instances'[1] = NewCnysa(NoOptions)
       /\ lastCall.op = "get" => lastCall'.on = lastCall.on]_vars

\* get() has constructed the first instance, a second one was constructed
\* with new, and get() returned the second.
C22_Witness ==
  /\ lastCall.op = "get"
  /\ activeInstances = <<1, 1, 2>>
  /\ lastCall.on = 2

\* C23 as claimed: mark, ignoreNext and createAsyncSnapshot called on an
\* instance leave the registry, the log and the Continuation Stack of every
\* other instance as they were.
C23_CallsTouchReceiverOnly ==
  [][lastCall'.op \in {"mark", "ignoreNext", "createAsyncSnapshot"} =>
       \A j \in 1..Len(instances) :
         j # lastCall'.on => instances'[j] = instances[j]]_vars

\* The marker of a mark() call as instance j records it.
RecordsMarker(j) ==
  /\ instances'[j].resources =
       (hostNext :> [uid |-> hostNext,
                     type |-> MarkType(toString(markHighWater)),
                     parents |-> instances[j].currentScopes,
                     internal |-> TRUE, custom |-> TRUE, tid |-> <<>>])
       @@ instances[j].resources
  /\ instances'[j].events =
       Append(instances[j].events, Event(hostNext, "internal"))
  /\ instances'[j].ignoreResources = instances[j].ignoreResources

\* C23: every instance has a registry, a log and a Continuation Stack of its
\* own, which ignoreNext and createAsyncSnapshot called on another instance
\* leave as they were.  The resource mark() creates belongs to the process:
\* every enabled instance, the receiver or not, registers and logs it (or
\* counts it among the resources to ignore), a disabled instance, the
\* receiver included, records nothing, and the tag counter all instances
\* share advances.
C23_OnlyMarkIsProcessWide ==
  [][/\ lastCall'.op \in {"ignoreNext", "createAsyncSnapshot"} =>
          \A j \in 1..Len(instances) :
            j # lastCall'.on => instances'[j] = instances[j]
     /\ lastCall'.op = "mark" =>
          /\ Len(instances') = Len(instances)
          /\ markHighWater' = markHighWater + 1
          /\ \A j \in 1..Len(instances) :
               /\ instances'[j].currentScopes = instances[j].currentScopes
               /\ IF ~instances[j].enabled
                  THEN instances'[j] = instances[j]
                  ELSE IF instances[j].ignoreResources # 0
                  THEN /\ instances'[j].ignoreResources =
                            instances[j].ignoreResources - 1
                       /\ instances'[j].resources = instances[j].resources
                       /\ instances'[j].events = instances[j].events
                  ELSE RecordsMarker(j)]_vars

\* mark() was called on a disabled instance, which has recorded nothing,
\* and the other instance, enabled, has the marker in its log.
C23_Witness ==
  /\ lastCall.op = "mark"
  /\ Len(instances) = 2
  /\ \E i \in 1..2 :
       /\ lastCall.on = i
       /\ ~instances[i].enabled
       /\ Len(instances[i].events) = 1
       /\ instances[3 - i].enabled
       /\ instances[3 - i].events =
            <<Event(1, "before"), Event(2, "internal")>>

\* C27 as claimed: constructing a recorder with a malformed ignoreTypes
\* pattern fails, so that no recorder holds a malformed pattern, let alone
\* records events or is asked for a page with one.
C27_MalformedPatternFailsConstruction ==
  \A i \in 1..Len(instances) :
    ~canonicalizeThrows(instances[i].globalOptions, NoOptions)

\* The resources a step registers.
Registered == DOMAIN resources' \ DOMAIN resources

\* C31: a resource is registered with, as parents, the ids of the recorder's
\* Continuation Stack at that moment, bottom to top; its trigger id is
\* recorded when, and only when, the trigger (the resource the host created
\* last) is not the executing scope; a marker has no trigger id; and the
\* creation appends one event: init, or internal for a marker.
C31_CreationRecord ==
  [][\A u \in Registered :
       LET r == resources'[u]
       IN /\ Registered = {u} /\ r.uid = u
          /\ r.parents = currentScopes
          /\ currentScopes' = currentScopes
          /\ IF r.internal
             THEN /\ r.tid = <<>>
                  /\ events' = Append(events, Event(u, "internal"))
             ELSE /\ r.tid = IF hostNext - 1 # ExecutionAsyncId
                             THEN <<hostNext - 1>> ELSE <<>>
                  /\ events' = Append(events, Event(u, "init"))]_vars

\* Resource 2 was created by the main script with the main script as its
\* trigger, and has no trigger id; resource 3 was created next, with 2 as
\* its trigger and 2 not executing, and has it; both have the Continuation
\* Stack of the moment as parents.
C31_Witness ==
  /\ {2, 3} \subseteq DOMAIN resources
  /\ ~resources[2].internal /\ resources[2].tid = <<>>
  /\ ~resources[3].internal /\ resources[3].tid = <<2>>
  /\ resources[2].parents = <<1>> /\ resources[3].parents = <<1>>

\* The events of the log whose resource the options of snap do not exclude.
KeptEvents == SelectSeq(events, LAMBDA e : e.uid \notin Filtered)

\* The glyph streams of a rendering pass over the kept events with no
\* spacers at all.
Unpadded ==
  forEachEvent([stack |-> <<>>, eventStrings |-> <<>>], KeptEvents, Keys, 1,
               IF snap.rowHeaderLength = <<>> THEN <<>>
               ELSE <<snap.config.width - snap.rowHeaderLength[1]>>)

\* The column of the n-th kept event in the padded list.
ColumnOf(n) == (n - 1) * (1 + snap.config.padding) + 1

\* C32: the padded event list is the events of the resources that are not
\* excluded, in log order, each followed by exactly padding spacers (none for
\* padding 0), and holds no event of an excluded resource.  A spacer adds one
\* column to every track, the steady-state glyph of the track, and changes
\* neither the replayed Continuation Stack nor a track's liveness: without
\* the spacers' columns every track is what a pass with no spacers draws,
\* and the stack the pass ends with is the same.
C32_Padding ==
  Rendered =>
    /\ Cols = Len(KeptEvents) * (1 + snap.config.padding)
    /\ \A n \in 1..Len(KeptEvents) :
         /\ snap.paddedEvents[ColumnOf(n)] = KeptEvents[n]
         /\ \A m \in 1..snap.config.padding :
              snap.paddedEvents[ColumnOf(n) + m] = PadEvent
    /\ \A i \in 1..Cols : snap.paddedEvents[i].uid \notin Filtered
    /\ \A k \in Tracks :
         /\ Len(Track(k)) = Cols
         /\ \A i \in 1..Cols :
              snap.paddedEvents[i] = PadEvent =>
                Track(k)[i] = IF OnStack(Replayed(i - 1), k) THEN "."
                              ELSE IF AliveBefore(i, k) THEN "-" ELSE " "
    /\ \E l \in {Unpadded} :
         /\ l.stack = snap.stack
         /\ DOMAIN l.eventStrings = Tracks
         /\ \A k \in Tracks :
              Flatten(l.eventStrings[k].str.data) =
                [n \in 1..Len(KeptEvents) |-> Track(k)[ColumnOf(n)]]

\* A page made with padding 1 of a log with events of an excluded resource,
\* on which a spacer's column shows a track alive.
C32_Witness ==
  /\ Rendered
  /\ snap.config.padding = 1
  /\ Len(KeptEvents) < Len(events)
  /\ \E i \in 1..Cols, k \in Tracks :
       snap.paddedEvents[i] = PadEvent /\ Track(k)[i] = "-"

\* The ids in the parents of the resources of S.
ParentsOf(S) ==
  UNION {{resources[k].parents[j] : j \in 1..Len(resources[k].parents)} :
           k \in S \cap DOMAIN resources}

\* The ids the set S leads to by following parents any number of times, S
\* included.
RECURSIVE ReachFrom(_)
ReachFrom(S) ==
  IF ParentsOf(S) \subseteq S THEN S ELSE ReachFrom(S \cup ParentsOf(S))

\* The constraints hasAncestor is asked about: lists of ids, of the registry
\* or not, and type patterns.
IdConstraints ==
  {<<a>> : a \in 1..(MaxId + 1)} \cup {<<2, 3>>, <<3, 1>>}

TypeConstraints == {PromiseType, JobType, <<"(">>, <<"o">>, <<"x">>}

\* C33: hasAncestor is true for the empty constraint; for a list of ids it
\* is true exactly when the resource, or a resource that following parents
\* leads to, is in the list; for a type pattern exactly when the type of
\* the resource, or of a resource that following parents leads to, matches.
\* It terminates on every registry the recorder makes: every parent is
\* registered and no resource is led back to by its own parents.
C33_HasAncestor ==
  \A k \in DOMAIN resources :
    /\ hasAncestor(resources[k], <<>>)
    /\ \A C \in IdConstraints :
         hasAncestor(resources[k], C)
           <=> \E a \in ReachFrom({k}) : \E i \in 1..Len(C) : C[i] = a
    /\ \A P \in TypeConstraints :
         hasAncestorByType(resources[k], P)
           <=> \E a \in ReachFrom({k}) : Match(resources[a].type, P)
    /\ ReachFrom({k}) \subseteq DOMAIN resources
    /\ k \notin ReachFrom(ParentsOf({k}))

\* A page made under root 2 of a registry in which resource 3 leads to 1
\* through 2 only: 3 has 2 and 1 for ancestors, and 2 does not have 3.
C33_Witness ==
  /\ Rendered
  /\ snap.config.roots = <<2>>
  /\ 3 \in DOMAIN resources
  /\ resources[3].parents = <<2>> /\ resources[2].parents = <<1>>
  /\ Filtered = {1}
  /\ hasAncestor(resources[3], <<1>>)
  /\ ~hasAncestor(resources[2], <<3>>)

\* C34: in every reachable state every id among the parents of a registered
\* resource is registered and is smaller than the resource's own id, the
\* host handing out increasing ids; the parents graph has no cycle.
C34_ParentsEarlierAndRegistered ==
  \A k \in DOMAIN resources :
    \A j \in 1..Len(resources[k].parents) :
      /\ resources[k].parents[j] \in DOMAIN resources
      /\ resources[k].parents[j] < k

\* Resource 3 was created in the scope of 2 with the root scope open: its
\* parents are 1 and 2.
C34_Witness ==
  /\ 3 \in DOMAIN resources
  /\ resources[3].parents = <<1, 2>>

\* How many entries of array are v.
Count(array, v) == Cardinality({n \in 1..Len(array) : array[n] = v})

\* The number of ways to walk path: from an entry of the Continuation Stack
\* that holds its first id, each time to an entry of the parents of the id
\* at hand that holds the next id.
RECURSIVE Walks(_, _)
Walks(path, i) ==
  IF i = 1 THEN Count(currentScopes, path[1])
  ELSE Walks(path, i - 1) * Count(resources[path[i - 1]].parents, path[i])

\* The cells of generation g that hold path.
CellsOf(g, path) ==
  IF g > Len(snap.levels) THEN 0
  ELSE Cardinality({n \in 1..Len(snap.levels[g]) :
                      snap.levels[g][n].path = path})

\* A parent has a smaller id than its child, so a path along parents is a
\* set of ids in descending order.
DescendingPaths ==
  {Reverse(Ascending(S)) : S \in (SUBSET DOMAIN resources) \ {{}}}

\* C35: the cells of generation g of createAsyncStackTrace are the ancestry
\* paths of g ids that start at an open scope of the Continuation Stack, go
\* from each id to one of its parents, and hold neither the root nor a
\* resource of an excluded type: one cell for each way of walking such a
\* path, so that a scope with several parents has a cell for each of them,
\* and none for any other path.  Generation 1 lists the open scopes
\* innermost first.
C35_TraceGenerations ==
  Traced =>
    /\ \A g \in 1..Len(snap.levels) : \A n \in 1..Len(snap.levels[g]) :
         LET path == snap.levels[g][n].path
         IN /\ Len(path) = g
            /\ path \in DescendingPaths
            /\ Walks(path, g) > 0
            /\ \A m \in 1..g : ~Truncating(path[m])
    /\ \A path \in DescendingPaths :
         CellsOf(Len(path), path) =
           IF \A m \in 1..Len(path) : ~Truncating(path[m])
           THEN Walks(path, Len(path)) ELSE 0
    /\ LET open == SelectSeq(currentScopes, LAMBDA k : ~Truncating(k))
       IN IF Len(snap.levels) = 0 THEN Len(currentScopes) = 0
          ELSE [n \in 1..Len(snap.levels[1]) |-> snap.levels[1][n].path[1]]
                 = Reverse(open)

\* A page made in the scope of resource 4, which has the two parents 2 and
\* 3 besides the root: generation 2 has a cell for the path from 4 to 3 and
\* one for the path from 4 to 2, and generation 3 the path from 4 by 3 to 2.
C35_Witness ==
  /\ Traced
  /\ Len(snap.levels) >= 3
  /\ CellsOf(1, <<4>>) = 1
  /\ CellsOf(2, <<4, 3>>) = 1 /\ CellsOf(2, <<4, 2>>) = 1
  /\ CellsOf(3, <<4, 3, 2>>) = 1

\* C35 as claimed: the cells of generation g correspond one-to-one to the
\* untruncated ancestry paths of g ids that start at an id of the
\* Continuation Stack: every such path has exactly one cell, every cell holds
\* such a path, and no two cells of a generation hold the same path.
C35_OneCellPerPath ==
  Traced =>
    /\ \A g \in 1..Len(snap.levels) : \A n \in 1..Len(snap.levels[g]) :
         /\ snap.levels[g][n].path \in DescendingPaths
         /\ Walks(snap.levels[g][n].path, g) > 0
    /\ \A path \in DescendingPaths :
         CellsOf(Len(path), path) =
           IF /\ \A m \in 1..Len(path) : ~Truncating(path[m])
              /\ Walks(path, Len(path)) > 0
           THEN 1 ELSE 0

\* The stack got by replaying the first i events of the Event Log: a before
\* pushes its id, an after pops.
RECURSIVE LogReplay(_)
LogReplay(i) ==
  IF i = 0 THEN <<>>
  ELSE IF events[i].type = "before" THEN Append(LogReplay(i - 1), events[i].uid)
  ELSE IF events[i].type = "after" THEN Pop(LogReplay(i - 1))
  ELSE LogReplay(i - 1)

\* C36 as claimed: after any recorder and renderer operations the ids on
\* the recorder's Continuation Stack are the stack replayed from the Event
\* Log, and once the after of the root is in the log id 1 is not on the
\* recorder's stack.
C36_StackMatchesLog ==
  /\ currentScopes = LogReplay(Len(events))
  /\ Has(1, "after") => ~OnStack(currentScopes, 1)

\* The tracks as they stand when the first i padded events are drawn.
DrawnUpTo(i) ==
  forEachEvent([stack |-> <<>>, eventStrings |-> <<>>],
               SubSeq(snap.paddedEvents, 1, i), Keys, 1,
               IF snap.rowHeaderLength = <<>> THEN <<>>
               ELSE <<snap.config.width - snap.rowHeaderLength[1]>>).eventStrings

\* C37: every padded event adds exactly one glyph to the track of every
\* registered resource: the glyph of the event on the track of its own
\* resource, a connector or a steady-state glyph on the others.  All tracks
\* have the same length, the number of events not excluded times
\* (1 + padding), and column i of every track is the column of padded event
\* i: drawing the first i events gives the first i columns of every track.
C37_OneGlyphPerEvent ==
  Rendered =>
    /\ Tracks = DOMAIN resources
    /\ \A k \in Tracks :
         /\ Len(Track(k)) = Len(KeptEvents) * (1 + snap.config.padding)
         /\ \A i \in 1..Cols :
              IF snap.paddedEvents[i].uid = k
              THEN Track(k)[i] = OwnGlyph(snap.paddedEvents[i].type)
              ELSE Track(k)[i] \in {"|", ".", "-", " "}
         /\ \A n \in 1..Len(snap.eventStrings[k].str.data) :
              snap.eventStrings[k].str.data[n].length
                = Len(snap.eventStrings[k].str.data[n].str)
    /\ \A i \in 1..Cols :
         \E drawn \in {DrawnUpTo(i)} :
           \A k \in Tracks :
             Flatten(drawn[k].str.data) = SubSeq(Track(k), 1, i)

\* A page of three tracks and at least four columns with a connector on it.
C37_Witness ==
  /\ Rendered
  /\ Cardinality(Tracks) = 3
  /\ Cols >= 4
  /\ \E i \in 1..Cols, k \in Tracks :
       Connected(i, k) /\ k # snap.paddedEvents[i].uid

\* C38: createAsyncStackTrace terminates in every reachable state of the
\* recorder: along an ancestry path the ids decrease, every path of the last
\* generation ends at a resource with no parents or whose parents are the
\* root or of an excluded type, and there are no more generations than
\* registered resources.
C38_TraceTerminates ==
  Traced =>
    /\ Len(snap.levels) <= Cardinality(DOMAIN resources)
    /\ \A g \in 1..Len(snap.levels) : \A n \in 1..Len(snap.levels[g]) :
         LET path == snap.levels[g][n].path
         IN /\ \A m \in 1..(Len(path) - 1) : path[m + 1] < path[m]
            /\ g = Len(snap.levels) =>
                 \A j \in 1..Len(resources[top(path)].parents) :
                   Truncating(resources[top(path)].parents[j])

\* A page with as many generations as registered resources: 3 was created
\* in the scope of 2, both are open, and the last generation, where the path
\* from 3 by 2 has reached the root, is empty.
C38_Witness ==
  /\ Traced
  /\ DOMAIN resources = {1, 2, 3}
  /\ Len(snap.levels) = 3
  /\ CellsOf(2, <<3, 2>>) = 1
  /\ snap.levels[3] = <<>>

====
